---- MODULE Spec2Model ----
(***************************************************************************)
(* Verification model of the Blender animation scripts.                    *)
(*                                                                         *)
(*   Spec      the batched model placement of Stats_Generator.py:          *)
(*             generate_stats_models, the timer callback                   *)
(*             _process_models_batch and clear_script_generated_elements.  *)
(*   SpecPlan  the planning loop of generate_stats_models (scale factors). *)
(*                                                                         *)
(* Python floats are modelled as binary floating point numbers with a      *)
(* short mantissa: a number is a natural n standing for n / 2^FracBits,    *)
(* and every arithmetic result is rounded to the nearest number with at    *)
(* most Mant64 significant bits (ties to even).  Blender stores object     *)
(* locations in single precision: Mant32 significant bits.                 *)
(***************************************************************************)
EXTENDS Integers, Sequences, FiniteSets, TLC

\* ------------------------------------------------------------------------
\* Bounds of the model
\* ------------------------------------------------------------------------
MaxItems == 12
MaxNarrow == 2
SmallBatchArg == 3
FracBits == 2
Mant64 == 6
Mant32 == 4
MaxRecords == 3
MaxValue == 2
MaxMinScale == 3
MaxScale == 72
MaxPower2 == 3

\* ------------------------------------------------------------------------
\* Program constants
\* ------------------------------------------------------------------------
BATCH_SIZE == 10

RECURSIVE Pow2(_)
Pow2(n) == IF n = 0 THEN 1 ELSE 2 * Pow2(n - 1)

\* one model unit is 2^-FracBits; Unit is the number 1.0
Unit == Pow2(FracBits)

PROPORTIONAL_GAP_FACTOR == Unit \div 2
MIN_CLEARANCE_BETWEEN_MODELS == 2 * Unit

Min(a, b) == IF a <= b THEN a ELSE b
Max(a, b) == IF a >= b THEN a ELSE b

\* ------------------------------------------------------------------------
\* Floating point arithmetic
\* ------------------------------------------------------------------------
\* the exponent of p/q: the least e >= 0 with p/q < 2^(mant+e)
RECURSIVE FloatExp(_, _, _, _)
FloatExp(p, q, mant, e) ==
    IF p < q * Pow2(mant + e) THEN e ELSE FloatExp(p, q, mant, e + 1)

\* p/q rounded to the nearest number with mant significant bits, ties to even
RoundTo(p, q, mant) ==
    LET e == FloatExp(p, q, mant, 0)
        d == q * Pow2(e)
        f == p \div d
        r == p % d
        m == IF 2 * r < d THEN f
             ELSE IF 2 * r > d THEN f + 1
             ELSE IF f % 2 = 0 THEN f ELSE f + 1
    IN  m * Pow2(e)

fadd(a, b) == RoundTo(a + b, 1, Mant64)
fsub(a, b) == RoundTo(a - b, 1, Mant64)
fmul(a, b) == RoundTo(a * b, Unit, Mant64)
fdiv(a, b) == RoundTo(a * Unit, b, Mant64)
\* a double stored into a single precision property (Object.location)
to_f32(a) == RoundTo(a, 1, Mant32)

\* ------------------------------------------------------------------------
\* State of the stats generator
\* ------------------------------------------------------------------------
VARIABLES
    batch_context,      \* the module level dict _batch_context
    timer_registered,   \* _process_models_batch is registered in bpy.app.timers
    collections,        \* names of the collections in bpy.data.collections
    coll_objects,       \* collection name -> objects linked to it
    cancel_requested,   \* the user has asked to abort the running generation
    run_args,           \* arguments of the current generate_stats_models call
    run_result,         \* how the last generate_stats_models call went on
    ticks,              \* ticks of _process_models_batch in the current run
    tick_placed,        \* per tick, the indices it placed
    callback_calls,     \* invocations of completion_callback in this run
    cleanup_calls       \* invocations of cleanup_func by a tick in this run

statsVars == <<batch_context, timer_registered, collections, coll_objects,
               cancel_requested, run_args, run_result,
               ticks, tick_placed, callback_calls, cleanup_calls>>

ROOT == "MyVisualization_model"
SOURCE == "Source_model_Model"
DUPLICATES == "Viz_model_Duplicates"
CollNames == {ROOT, SOURCE, DUPLICATES}
CAMERA_NAME == "Main_Visualization_Camera"

EmptyDict == [k \in {} |-> 0]

\* the children of a collection: both sub-collections are linked to the root
Children(colls, c) == IF c = ROOT THEN colls \cap {SOURCE, DUPLICATES} ELSE {}

\* the objects of the scene: the imported source mesh and the placed copies
SourceObj == [kind |-> "source", idx |-> 0, width |-> 0, x |-> 0]
DupObj(i, w, loc) == [kind |-> "dup", idx |-> i, width |-> w, x |-> loc]

\* "not source_model_obj or not source_model_obj.data" is false: the source
\* mesh is still an object of the source collection
SourcePresent_unchecked(objs) == TRUE
SourcePresent(objs) == SourceObj \in objs[SOURCE]

\* get_or_create_collection for the three collections of a visualization
get_or_create_collections(colls) == colls \cup {ROOT, SOURCE, DUPLICATES}

\* collect_for_deletion: the root collection and, recursively, its children
collect_for_deletion_shallow(colls, root) == {root}
collect_for_deletion(colls, root) == Children(colls, root) \cup {root}

\* clear_script_generated_elements(root): the scene after the call
clear_script_generated_elements(colls, objs, root) ==
    IF root \notin colls
    THEN [collections |-> colls, coll_objects |-> objs]
    ELSE
      LET kids == Children(colls, root)
          collections_to_delete == collect_for_deletion(colls, root)
          \* every object but the main camera is unlinked and removed
          objsAfter == [c \in CollNames |->
                          IF c \in collections_to_delete
                          THEN {o \in objs[c] : o.kind = "camera"}
                          ELSE objs[c]]
          \* reversed(collections_to_delete) visits the root first, while
          \* its children still exist
          rootRemoved == objsAfter[root] = {} /\ kids = {}
          kidsRemoved == {k \in kids : objsAfter[k] = {}}
          gone == kidsRemoved \cup (IF rootRemoved THEN {root} ELSE {})
      IN  [collections |-> colls \ gone, coll_objects |-> objsAfter]

\* the widths get_scaled_width_of_model measures: the records are sorted by
\* DataValue and the scale grows with it, so the widths do not decrease.
\* A planned list is some narrow models followed by wide ones.
NarrowWidth == 3 * Unit
WideWidth == 6 * Unit

PlannedWidths ==
    {[i \in 1..n |-> IF i <= k THEN NarrowWidth ELSE WideWidth] :
        n \in 0..MaxItems, k \in 0..MaxNarrow}

PlannedItems(ws) ==
    [i \in 1..Len(ws) |->
        [Category |-> i - 1, width |-> ws[i], world_x_pos |-> 0]]

\* the existing models re-collected when generation is skipped, sorted by
\* world_x_pos
RECURSIVE SortedByX(_)
RECURSIVE InCollectionOrder(_)
InCollectionOrder(S) ==
    IF S = {} THEN <<>>
    ELSE LET o == CHOOSE a \in S : \A b \in S : a.idx >= b.idx
         IN  <<[Category |-> o.idx, width |-> o.width, world_x_pos |-> o.x]>>
             \o InCollectionOrder(S \ {o})
SortedByX(S) ==
    IF S = {} THEN <<>>
    ELSE LET o == CHOOSE a \in S : \A b \in S :
                       a.x < b.x \/ (a.x = b.x /\ a.idx <= b.idx)
         IN  <<[Category |-> o.idx, width |-> o.width, world_x_pos |-> o.x]>>
             \o SortedByX(S \ {o})

BatchArgs == {SmallBatchArg, BATCH_SIZE}

\* ------------------------------------------------------------------------
\* generate_stats_models
\* ------------------------------------------------------------------------
StartHistory(args, result, calls) ==
    /\ run_args' = args
    /\ run_result' = result
    /\ cancel_requested' = FALSE
    /\ ticks' = 0
    /\ tick_placed' = <<>>
    /\ callback_calls' = calls
    /\ cleanup_calls' = <<>>

\* The call is modelled between runs: the operator that makes it runs on the
\* host's single script thread, and the runs the properties speak of are the
\* ones that are not restarted while their timer is still pending.
generate_stats_models_from(colls0, objs0, batch_sizes, rebuilds, callbacks) ==
    /\ ~timer_registered
    /\ \E ws \in PlannedWidths, bs \in batch_sizes, rebuild_on_run \in rebuilds,
          has_callback \in callbacks,
          import \in {"reuse", "ok", "none", "nomesh", "error"} :
       LET n == Len(ws)
           args == [batch_size |-> bs, has_callback |-> has_callback, n_items |-> 0,
                    rebuild_on_run |-> rebuild_on_run]
           s0 == [collections |-> colls0, coll_objects |-> objs0]
           s1 == IF rebuild_on_run
                 THEN clear_script_generated_elements(colls0, objs0, ROOT)
                 ELSE s0
           skip == /\ ~rebuild_on_run
                   /\ DUPLICATES \in colls0
                   /\ objs0[DUPLICATES] # {}
           colls2 == get_or_create_collections(s1.collections)
           cleared == clear_script_generated_elements(colls2, s1.coll_objects, ROOT)
           withSource == [s1.coll_objects EXCEPT ![SOURCE] = @ \cup {SourceObj}]
           objs3 == IF import = "reuse" THEN s1.coll_objects ELSE withSource
           cleared3 == clear_script_generated_elements(colls2, objs3, ROOT)
       IN
       \* an existing source mesh is reused only if the source collection has one
       /\ (import = "reuse") => SourcePresent(s1.coll_objects)
       \* the arguments a path does not read are not enumerated: the skip
       \* path reads neither the model file nor the CSV file, and the CSV file
       \* is read after the import has succeeded
       /\ skip => (import = "ok" /\ ws = <<>>)
       /\ (import \in {"none", "error", "nomesh"}) => ws = <<>>
       /\ timer_registered' = (~skip /\ import \in {"reuse", "ok"} /\ n > 0)
       /\ IF skip
          THEN /\ batch_context' = EmptyDict
               /\ collections' = colls0
               /\ coll_objects' = objs0
               /\ StartHistory(args, "skipped",
                     IF has_callback
                     THEN <<[collection |-> DUPLICATES,
                             items |-> SortedByX(objs0[DUPLICATES]),
                             tick |-> 0]>>
                     ELSE <<>>)
          ELSE IF import \in {"none", "error"}
          THEN \* nothing imported, or an exception while importing
               /\ batch_context' = EmptyDict
               /\ collections' = cleared.collections
               /\ coll_objects' = cleared.coll_objects
               /\ StartHistory(args, "import_failed", <<>>)
          ELSE IF import = "nomesh"
          THEN \* no mesh found: only the temporary import collection is removed
               /\ batch_context' = EmptyDict
               /\ collections' = colls2
               /\ coll_objects' = s1.coll_objects
               /\ StartHistory(args, "import_failed", <<>>)
          ELSE IF n = 0
          THEN \* parse_csv_data returned no rows
               /\ batch_context' = EmptyDict
               /\ collections' = cleared3.collections
               /\ coll_objects' = cleared3.coll_objects
               /\ StartHistory(args, "no_data", <<>>)
          ELSE /\ batch_context' =
                    [model_data_to_process |-> PlannedItems(ws),
                     source_model_obj |-> SourceObj,
                     duplicates_collection |-> DUPLICATES,
                     root_collection_name |-> ROOT,
                     cleanup_func |-> "clear_script_generated_elements",
                     proportional_gap_factor |-> PROPORTIONAL_GAP_FACTOR,
                     min_clearance_between_models |-> MIN_CLEARANCE_BETWEEN_MODELS,
                     completion_callback |-> has_callback,
                     current_model_index |-> 0,
                     current_x_position_for_next_model |-> 0]
               /\ collections' = colls2
               /\ coll_objects' = objs3
               /\ StartHistory([args EXCEPT !.n_items = n], "scheduled", <<>>)

generate_stats_models ==
    generate_stats_models_from(collections, coll_objects,
                               BatchArgs, BOOLEAN, BOOLEAN)

\* ------------------------------------------------------------------------
\* _process_models_batch
\* ------------------------------------------------------------------------
\* the loop "for i in range(batch_start, batch_end)": st holds the item list,
\* the running x position, the objects of the duplicates collection and the
\* indices placed so far by this tick
\* batch_end = min(current_model_index + BATCH_SIZE, len(model_data_to_process))
batch_end_for(current_model_index, batch_size, n_items) ==
    Min(current_model_index + batch_size, n_items)

batch_end_of(context) ==
    batch_end_for(context.current_model_index, BATCH_SIZE,
                  Len(context.model_data_to_process))

\* the tick reads context['current_x_position_for_next_model'] as the
\* previous tick left it
restarted_x_position(current_x_position_for_next_model) == 0
resumed_x_position(current_x_position_for_next_model) ==
    current_x_position_for_next_model

\* context['current_model_index'] = batch_end
advance_index_forgotten(context, batch_end) == context
advance_index(context, batch_end) ==
    [context EXCEPT !.current_model_index = batch_end]

\* model_data['world_x_pos'] = duplicated_obj.location.x
recorded_world_x_placeholder(duplicated_obj) == 0
recorded_world_x(duplicated_obj) == duplicated_obj.x

\* x_position_for_current_model = current_x_position_for_next_model
\*                                + (current_model_width / 2.0)
x_position_at_left_edge(current_x_position, current_model_width) ==
    current_x_position
x_position_for_model(current_x_position, current_model_width) ==
    fadd(current_x_position, fdiv(current_model_width, 2 * Unit))

RECURSIVE PlaceRange(_, _, _, _, _)
PlaceRange(st, i, batch_end, gap_factor, min_clearance) ==
    IF i >= batch_end THEN st
    ELSE
      LET items == st.items
          current_model_width == items[i + 1].width
          x_position_for_current_model ==
              x_position_for_model(st.x_next, current_model_width)
          \* duplicated_obj.location is a single precision vector
          location_x == to_f32(x_position_for_current_model)
          duplicated_obj == DupObj(i, current_model_width, location_x)
          proportional_gap_part ==
              IF i < Len(items) - 1
              THEN fmul(fadd(fdiv(current_model_width, 2 * Unit),
                             fdiv(items[i + 2].width, 2 * Unit)), gap_factor)
              ELSE 0
          total_gap == Max(min_clearance, proportional_gap_part)
      IN  PlaceRange(
            [items  |-> [items EXCEPT ![i + 1].world_x_pos =
                                       recorded_world_x(duplicated_obj)],
             x_next |-> fadd(st.x_next, fadd(current_model_width, total_gap)),
             objs   |-> st.objs \cup {duplicated_obj},
             placed |-> Append(st.placed, i)],
            i + 1, batch_end, gap_factor, min_clearance)

process_models_batch ==
    /\ timer_registered
    /\ LET context == batch_context
           model_data_to_process == context.model_data_to_process
           batch_start == context.current_model_index
           batch_end == batch_end_of(context)
           advanced == advance_index(context, batch_end)
       IN
       /\ ticks' = ticks + 1
       /\ IF ~SourcePresent(coll_objects)
          THEN \* the source model is missing: unregister, clean up, return
               LET cleared == clear_script_generated_elements(
                                  collections, coll_objects,
                                  context.root_collection_name)
               IN
               /\ batch_context' = advanced
               /\ timer_registered' = FALSE
               /\ collections' = cleared.collections
               /\ coll_objects' = cleared.coll_objects
               /\ cleanup_calls' = Append(cleanup_calls, context.root_collection_name)
               /\ tick_placed' = Append(tick_placed, <<>>)
               /\ run_result' = "halted"
               /\ UNCHANGED callback_calls
          ELSE
               LET st == PlaceRange(
                           [items  |-> model_data_to_process,
                            x_next |-> resumed_x_position(
                                context.current_x_position_for_next_model),
                            objs   |-> coll_objects[context.duplicates_collection],
                            placed |-> <<>>],
                           batch_start, batch_end,
                           context.proportional_gap_factor,
                           context.min_clearance_between_models)
                   more == advanced.current_model_index < Len(model_data_to_process)
               IN
               /\ coll_objects' =
                    [coll_objects EXCEPT ![context.duplicates_collection] = st.objs]
               /\ tick_placed' = Append(tick_placed, st.placed)
               /\ timer_registered' = more
               /\ IF more
                  THEN /\ batch_context' =
                            [advanced EXCEPT
                               !.model_data_to_process = st.items,
                               !.current_x_position_for_next_model = st.x_next]
                       /\ UNCHANGED <<callback_calls, run_result>>
                  ELSE /\ callback_calls' =
                            IF context.completion_callback
                            THEN Append(callback_calls,
                                   [collection |-> context.duplicates_collection,
                                    items |-> st.items,
                                    tick |-> ticks + 1])
                            ELSE callback_calls
                       /\ batch_context' = EmptyDict
                       /\ run_result' = "completed"
               /\ UNCHANGED <<collections, cleanup_calls>>
       /\ UNCHANGED <<cancel_requested, run_args>>

\* ------------------------------------------------------------------------
\* The host and the user between two ticks
\* ------------------------------------------------------------------------
\* the source model is deleted from the scene while a run is in progress
SourceModelRemoved ==
    /\ timer_registered
    /\ SourcePresent(coll_objects)
    /\ coll_objects' = [coll_objects EXCEPT ![SOURCE] = @ \ {SourceObj}]
    /\ UNCHANGED <<batch_context, timer_registered, collections,
                   cancel_requested, run_args, run_result, ticks,
                   tick_placed, callback_calls, cleanup_calls>>

\* the user asks to abort the run in progress (the ESC event of the modal
\* operators); _process_models_batch has no statement that reads it
UserCancel ==
    /\ timer_registered
    /\ ~cancel_requested
    /\ cancel_requested' = TRUE
    /\ UNCHANGED <<batch_context, timer_registered, collections, coll_objects,
                   run_args, run_result, ticks, tick_placed,
                   callback_calls, cleanup_calls>>

StatsInit ==
    /\ batch_context = EmptyDict
    /\ timer_registered = FALSE
    /\ collections = {}
    /\ coll_objects = [c \in CollNames |-> {}]
    /\ cancel_requested = FALSE
    /\ run_args = [batch_size |-> BATCH_SIZE, has_callback |-> FALSE, n_items |-> 0,
                   rebuild_on_run |-> FALSE]
    /\ run_result = "none"
    /\ ticks = 0
    /\ tick_placed = <<>>
    /\ callback_calls = <<>>
    /\ cleanup_calls = <<>>

\* ------------------------------------------------------------------------
\* The planning loop of generate_stats_models
\* ------------------------------------------------------------------------
VARIABLES
    plan_in,          \* world_data (sorted DataValues) and the scaling arguments
    plan_i,           \* rows of world_data the loop has passed
    model_data,       \* model_data_to_process built so far
    divisions         \* divisions the loop has executed so far

planVars == <<plan_in, plan_i, model_data, divisions>>


\* the smallest positive number stands for the 1e-9 added before math.log
EPSILON == 1
\* width of the normalized source mesh (TARGET_BASE_DIMENSION)
BaseWidth == Unit

RECURSIVE IntPow(_, _)
IntPow(b, k) == IF k = 0 THEN 1 ELSE b * IntPow(b, k - 1)

RECURSIVE FloorLog2(_)
FloorLog2(n) == IF n < 2 THEN 0 ELSE 1 + FloorLog2(n \div 2)

\* math.log(x) for x >= EPSILON, as a multiple of log 2 and counted from
\* log(EPSILON): the loop only uses differences and quotients of logarithms
flog(x) == RoundTo(FloorLog2(IntPow(x, Unit)), 1, Mant64)

\* t ** power for 0 <= t <= 1.0 and power = k/2: the number nearest to the
\* real result, ties to even
fpow(t, k) ==
    LET below == {r \in 0..Unit : r * r * IntPow(Unit, k) <= IntPow(t, k) * Unit * Unit}
        lo == CHOOSE r \in below : \A q \in below : q <= r
        y2 == 4 * IntPow(t, k) * Unit * Unit
        mid2 == (2 * lo + 1) * (2 * lo + 1) * IntPow(Unit, k)
        r == IF y2 < mid2 THEN lo
             ELSE IF y2 > mid2 THEN lo + 1
             ELSE IF lo % 2 = 0 THEN lo ELSE lo + 1
    IN  RoundTo(r, 1, Mant64)

SeqMin(s) == CHOOSE v \in {s[i] : i \in 1..Len(s)} : \A j \in 1..Len(s) : v <= s[j]
SeqMax(s) == CHOOSE v \in {s[i] : i \in 1..Len(s)} : \A j \in 1..Len(s) : v >= s[j]

log_of(v) == IF v > 0 THEN flog(v + EPSILON) ELSE flog(EPSILON)

\* scale_factor = min_visual_scale, before any normalization
initial_scale_factor_max(in) == in.max_scale
initial_scale_factor(in) == in.min_scale

\* the scale_factor of one row and the number of divisions spent on it
ScaleFactor(in, data_value) ==
    LET min_data == SeqMin(in.values)
        max_data == SeqMax(in.values)
        span == fsub(in.max_scale, in.min_scale)
    IN
    IF max_data > min_data
    THEN IF in.linear
         THEN LET normalized_value ==
                      fdiv(fsub(data_value, min_data), fsub(max_data, min_data))
                  normalized_value_powered == fpow(normalized_value, in.power2)
              IN  [scale_factor |->
                       fadd(in.min_scale, fmul(normalized_value_powered, span)),
                   divs |-> 1]
         ELSE LET log_min_value == log_of(min_data)
                  log_max_value == log_of(max_data)
                  log_value == log_of(data_value)
                  log_range == fsub(log_max_value, log_min_value)
              IN  IF log_range > 0
                  THEN LET normalized_log_value ==
                               fdiv(fsub(log_value, log_min_value), log_range)
                           normalized_log_value_powered ==
                               fpow(normalized_log_value, in.power2)
                       IN  [scale_factor |->
                                fadd(in.min_scale,
                                     fmul(normalized_log_value_powered, span)),
                            divs |-> 1]
                  ELSE [scale_factor |-> initial_scale_factor(in), divs |-> 0]
    ELSE [scale_factor |-> initial_scale_factor(in), divs |-> 0]

\* get_scaled_width_of_model: the bounding box of the probe, computed by
\* Blender in single precision
get_scaled_width_of_model(scale_factor) ==
    RoundTo(scale_factor * BaseWidth, Unit, Mant32)

\* one iteration of "for i, row in enumerate(world_data)"
plan_row ==
    /\ plan_i < Len(plan_in.values)
    /\ LET data_value == plan_in.values[plan_i + 1]
           sf == ScaleFactor(plan_in, data_value)
       IN  /\ model_data' = Append(model_data,
                   [Category |-> plan_i,
                    DataValue |-> data_value,
                    scale_factor |-> sf.scale_factor,
                    width |-> get_scaled_width_of_model(sf.scale_factor),
                    world_x_pos |-> 0])
           /\ divisions' = divisions + sf.divs
    /\ plan_i' = plan_i + 1
    /\ UNCHANGED plan_in

\* world_data as parse_csv_data returns it: sorted by DataValue
RECURSIVE SortedValues(_, _)
SortedValues(n, lo) ==
    IF n = 0 THEN {<<>>}
    ELSE UNION {{<<v>> \o s : s \in SortedValues(n - 1, v)} : v \in lo..MaxValue}

PlanInputs ==
    {[values |-> vs, linear |-> lin, min_scale |-> a, max_scale |-> b, power2 |-> k] :
        vs \in UNION {SortedValues(n, 0) : n \in 1..MaxRecords},
        lin \in BOOLEAN,
        a \in {RoundTo(x, 1, Mant64) : x \in 1..MaxMinScale},
        b \in {RoundTo(x, 1, Mant64) : x \in 1..MaxScale},
        k \in 1..MaxPower2}

PlanInit ==
    /\ plan_in \in {in \in PlanInputs : in.min_scale <= in.max_scale}
    /\ plan_i = 0
    /\ model_data = <<>>
    /\ divisions = 0

\* the planner at rest, for the specification of the batch scheduler
PlanIdle ==
    /\ plan_in = [values |-> <<Unit>>, linear |-> TRUE, min_scale |-> Unit,
                  max_scale |-> Unit, power2 |-> 2]
    /\ plan_i = 0
    /\ model_data = <<>>
    /\ divisions = 0

\* ------------------------------------------------------------------------
\* The scene of the background grid generators: objects, their data blocks
\* and the collections they are linked to
\* ------------------------------------------------------------------------
VARIABLES
    objects,           \* bpy.data.objects: an object's id is its index
    data_blocks,       \* the data blocks (meshes) of the objects, by id
    users_collection,  \* for every object the collections it is linked to
    calls              \* the calls made so far, with what they returned

sceneVars == <<objects, data_blocks, users_collection, calls>>

\* Python's None, for a missing parent or missing object data
None == 0

SCENE_COLLECTION == "Scene Collection"
BACKGROUND_SOURCE_COLLECTION_NAME == "Background_Source_Models"
BACKGROUND_GRID == "Background_Grid"
\* a collection the user made, not known to the scripts
USER_COLLECTION == "Collection"
Collections ==
    {SCENE_COLLECTION, BACKGROUND_SOURCE_COLLECTION_NAME, BACKGROUND_GRID,
     USER_COLLECTION}

\* the elements of a set of numbers in ascending order
RECURSIVE SortedSeq(_)
SortedSeq(S) ==
    IF S = {} THEN <<>>
    ELSE LET m == CHOOSE a \in S : \A b \in S : a <= b
         IN  <<m>> \o SortedSeq(S \ {m})

\* obj.children: the objects whose parent is obj, found by scanning
\* bpy.data.objects
children_of(objs, obj) ==
    SortedSeq({c \in 1..Len(objs) : objs[c].parent = obj})

\* obj and all objects below it
RECURSIVE hierarchy_of(_, _)
hierarchy_of(objs, obj) ==
    {obj} \cup UNION {hierarchy_of(objs, c) :
                        c \in {d \in 1..Len(objs) : objs[d].parent = obj}}

\* f"{new_name_prefix}_{original_obj.name}": names are lists of name parts
name_without_prefix(new_name_prefix, name) == name
prefixed_name(new_name_prefix, name) == <<new_name_prefix, "_">> \o name

\* the state a duplication works on: the objects and data blocks, the map
\* from originals to duplicates, the originals in the order they were
\* copied, and the copies and parent links made so far, in order
DupState(objs, blocks) ==
    [objects |-> objs, data_blocks |-> blocks, map |-> EmptyDict,
     order |-> <<>>, events |-> <<>>, error |-> "none", ret |-> None]

\* new_obj.data = original_obj.data.copy(), when the original has data
copy_object_shared_data(st, original_obj, new_name_prefix) ==
    [st EXCEPT !.objects = Append(@,
        [st.objects[original_obj] EXCEPT
            !.name = prefixed_name(new_name_prefix, @),
            !.animation_data = FALSE])]
copy_object(st, original_obj, new_name_prefix) ==
    LET o == st.objects[original_obj]
        new_data == Len(st.data_blocks) + 1
    IN  [st EXCEPT
           !.objects = Append(@,
               [o EXCEPT !.name = prefixed_name(new_name_prefix, @),
                         !.data = IF o.data # None THEN new_data ELSE None,
                         !.animation_data = FALSE]),
           !.data_blocks =
               IF o.data # None
               THEN Append(@, [st.data_blocks[o.data] EXCEPT
                                  !.name = prefixed_name(new_name_prefix, @)])
               ELSE @]

\* one node copied and entered into the map
copy_node(st, original_obj, new_name_prefix) ==
    LET new_obj == Len(st.objects) + 1
        copied == copy_object(st, original_obj, new_name_prefix)
    IN  [copied EXCEPT
           !.map = (original_obj :> new_obj) @@ @,
           !.order = Append(@, original_obj),
           !.events = Append(@, <<"copy", original_obj>>)]

\* new_obj.parent = ...; new_obj.matrix_parent_inverse = ...copy()
set_parent_unmapped(st, new_obj, new_parent, original_obj) ==
    [st EXCEPT !.objects[new_obj].parent = st.objects[original_obj].parent,
               !.events = Append(@, <<"link", original_obj>>)]
set_parent(st, new_obj, new_parent, original_obj) ==
    [st EXCEPT
       !.objects[new_obj].parent = new_parent,
       !.objects[new_obj].matrix_parent_inverse =
           st.objects[original_obj].matrix_parent_inverse,
       !.events = Append(@, <<"link", original_obj>>)]

\* Blender_Buildings_Generator.py: the first pass, "while stack"
RECURSIVE first_pass(_, _, _)
first_pass(st, stack, new_name_prefix) ==
    IF stack = <<>> THEN st
    ELSE LET original_obj == stack[Len(stack)]
             rest == SubSeq(stack, 1, Len(stack) - 1)
         IN  IF original_obj \in DOMAIN st.map
             THEN first_pass(st, rest, new_name_prefix)
             ELSE LET copied == copy_node(st, original_obj, new_name_prefix)
                  IN  first_pass(copied,
                                 rest \o children_of(copied.objects, original_obj),
                                 new_name_prefix)

\* the second pass, "for original_obj, new_obj in original_to_duplicate_map.items()"
RECURSIVE second_pass(_, _)
second_pass(st, k) ==
    IF k > Len(st.order) THEN st
    ELSE LET original_obj == st.order[k]
             new_obj == st.map[original_obj]
             parent == st.objects[original_obj].parent
         IN  IF parent = None THEN second_pass(st, k + 1)
             ELSE IF parent \notin DOMAIN st.map
             THEN [st EXCEPT !.error = "KeyError"]
             ELSE second_pass(
                      set_parent(st, new_obj, st.map[parent], original_obj),
                      k + 1)

\* Blender_Buildings_Generator.duplicate_object_with_hierarchy
duplicate_object_with_hierarchy(objs, blocks, obj, new_name_prefix) ==
    LET copied == first_pass(DupState(objs, blocks), <<obj>>, new_name_prefix)
        linked == second_pass(copied, 1)
    IN  IF linked.error = "none"
        THEN [linked EXCEPT !.ret = linked.map[obj]]
        ELSE linked

\* Blender_Background_Generator.py and background_import_script.py: the
\* recursive duplication, which links every child as soon as it is copied
RECURSIVE duplicate_recursive(_, _, _)
RECURSIVE duplicate_children(_, _, _, _, _)
duplicate_recursive(st, obj_node, current_name_prefix) ==
    LET new_obj == Len(st.objects) + 1
        copied == copy_node(st, obj_node, current_name_prefix)
        done == duplicate_children(copied,
                                   children_of(copied.objects, obj_node), 1,
                                   new_obj, current_name_prefix)
    IN  [done EXCEPT !.ret = new_obj]

duplicate_children(st, kids, k, new_obj, current_name_prefix) ==
    IF k > Len(kids) THEN st
    ELSE LET child == kids[k]
             sub == duplicate_recursive(st, child, current_name_prefix)
             new_child == sub.ret
         IN  duplicate_children(set_parent(sub, new_child, new_obj, child),
                                kids, k + 1, new_obj, current_name_prefix)

duplicate_object_with_hierarchy_recursive(objs, blocks, obj, new_name_prefix) ==
    duplicate_recursive(DupState(objs, blocks), obj, new_name_prefix)

\* ------------------------------------------------------------------------
\* link_object_and_hierarchy_to_collection
\* ------------------------------------------------------------------------
\* "if target_collection not in current.users_collection:
\*      target_collection.objects.link(current)"
\* collection.objects.link raises RuntimeError for an object that is already
\* in the collection
link_unguarded(linked_to, target_collection) ==
    [linked |-> linked_to \cup {target_collection},
     error |-> target_collection \in linked_to]
link_if_absent(linked_to, target_collection) ==
    IF target_collection \notin linked_to
    THEN [linked |-> linked_to \cup {target_collection}, error |-> FALSE]
    ELSE [linked |-> linked_to, error |-> FALSE]

\* the nodes the linker visits: obj and, through .children, all below it
visited_root_only(objs, obj) == {obj}
visited_nodes(objs, obj) == hierarchy_of(objs, obj)

\* what a call of the linker leaves: the collections of every object, and
\* whether a link raised
LinkResult(users, per_node) ==
    [users |-> [n \in DOMAIN users |->
                   IF n \in DOMAIN per_node THEN per_node[n].linked ELSE users[n]],
     error |-> \E n \in DOMAIN per_node : per_node[n].error]

\* Blender_Buildings_Generator.py and background_import_script.py: every
\* node is unlinked from all collections it is in, then linked to the target
link_object_and_hierarchy_to_collection(objs, users, obj, target_collection) ==
    LinkResult(users,
        [n \in visited_nodes(objs, obj) |->
            LET unlinked == users[n] \ {coll \in users[n] : TRUE}
            IN  link_if_absent(unlinked, target_collection)])

\* Blender_Background_Generator.py: the scene collection and the target are
\* not unlinked
link_object_and_hierarchy_keep_scene(objs, users, obj, target_collection) ==
    LinkResult(users,
        [n \in visited_nodes(objs, obj) |->
            LET unlinked ==
                    users[n] \ {coll \in users[n] :
                                   /\ coll # SCENE_COLLECTION
                                   /\ coll # target_collection}
            IN  link_if_absent(unlinked, target_collection)])

\* ------------------------------------------------------------------------
\* Calls of the duplicator and the linker on a scene with imported models
\* ------------------------------------------------------------------------
MaxSourceNodes == 3
MaxCalls == 2

\* the imported model: node k hangs below an earlier node or is a root
SourceObject(k, parent, data) ==
    [name |-> <<"Node", k>>, parent |-> parent, data |-> data,
     matrix_parent_inverse |-> IF parent = None THEN 0 ELSE k,
     animation_data |-> TRUE]

\* every node has a mesh of its own, or all nodes share one mesh, or the
\* roots are empties (no data) above nodes with meshes of their own
DataLayouts == {"own", "shared", "empty_roots"}
DataOf(layout, k, parent) ==
    IF layout = "own" THEN k
    ELSE IF layout = "shared" THEN 1
    ELSE IF parent = None THEN None ELSE k

SourceModels ==
    {[k \in 1..MaxSourceNodes |-> SourceObject(k, ps[k], DataOf(layout, k, ps[k]))] :
        ps \in {f \in [1..MaxSourceNodes -> 0..MaxSourceNodes] :
                  \A k \in 1..MaxSourceNodes : f[k] < k},
        layout \in DataLayouts}

SceneInit ==
    /\ objects \in SourceModels
    /\ data_blocks = [d \in 1..Len(objects) |->
                         [name |-> <<"Mesh", d>>, geometry |-> 0]]
    /\ users_collection =
           [n \in 1..Len(objects) |-> {BACKGROUND_SOURCE_COLLECTION_NAME}]
    /\ calls = <<>>

\* the objects of the imported model, and those made by duplication
SourceIds == {n \in 1..Len(objects) : Len(objects[n].name) = 2}
DuplicateIds == (1..Len(objects)) \ SourceIds
top_level(objs) == {n \in 1..Len(objs) : objs[n].parent = None}

\* the prefix of the next call: f"Grid_{i:02d}_{j:02d}", one per cell
NextPrefix == <<"Grid", Len(calls)>>

DuplicateCall(variant, dup, obj, prefix) ==
    /\ dup.error = "none"
    /\ objects' = dup.objects
    /\ data_blocks' = dup.data_blocks
    \* a copy is linked to no collection
    /\ users_collection' =
           [n \in 1..Len(dup.objects) |->
               IF n <= Len(objects) THEN users_collection[n] ELSE {}]
    /\ calls' = Append(calls,
           [fn |-> "duplicate", variant |-> variant, obj |-> obj,
            arg |-> prefix, map |-> dup.map, events |-> dup.events,
            ret |-> dup.ret, before |-> users_collection])

\* Blender_Buildings_Generator.duplicate_object_with_hierarchy on a root of
\* the source model
DuplicateIterative ==
    /\ Len(calls) < MaxCalls
    /\ \E obj \in SourceIds \cap top_level(objects) :
          DuplicateCall("iterative",
              duplicate_object_with_hierarchy(objects, data_blocks, obj, NextPrefix),
              obj, NextPrefix)

\* the duplicate_object_with_hierarchy of Blender_Background_Generator.py
\* and background_import_script.py
DuplicateRecursive ==
    /\ Len(calls) < MaxCalls
    /\ \E obj \in SourceIds \cap top_level(objects) :
          DuplicateCall("recursive",
              duplicate_object_with_hierarchy_recursive(objects, data_blocks,
                                                        obj, NextPrefix),
              obj, NextPrefix)

\* Blender_Buildings_Generator.duplicate_object_with_hierarchy called on any
\* object of the source model; a KeyError raised by the second pass leaves
\* the copies of the first pass and the links made so far in the scene
DuplicateFrom ==
    /\ Len(calls) < MaxCalls
    /\ \E obj \in SourceIds :
          LET dup == duplicate_object_with_hierarchy(objects, data_blocks, obj,
                                                     NextPrefix)
          IN  /\ objects' = dup.objects
              /\ data_blocks' = dup.data_blocks
              /\ users_collection' =
                     [n \in 1..Len(dup.objects) |->
                         IF n <= Len(objects) THEN users_collection[n] ELSE {}]
              /\ calls' = Append(calls,
                     [fn |-> "duplicate", variant |-> "iterative", obj |-> obj,
                      arg |-> NextPrefix, map |-> dup.map,
                      events |-> dup.events, ret |-> dup.ret,
                      before |-> users_collection, error |-> dup.error])

LinkCall(variant, linked, obj, target_collection) ==
    /\ users_collection' = linked.users
    /\ calls' = Append(calls,
           [fn |-> "link", variant |-> variant, obj |-> obj,
            arg |-> target_collection, map |-> EmptyDict, events |-> <<>>,
            ret |-> IF linked.error THEN "RuntimeError" ELSE "ok",
            before |-> users_collection])
    /\ UNCHANGED <<objects, data_blocks>>

LinkExclusive ==
    /\ Len(calls) < MaxCalls
    /\ \E obj \in top_level(objects),
          target \in {BACKGROUND_GRID, BACKGROUND_SOURCE_COLLECTION_NAME} :
          LinkCall("exclusive",
              link_object_and_hierarchy_to_collection(objects, users_collection,
                                                      obj, target),
              obj, target)

LinkKeepScene ==
    /\ Len(calls) < MaxCalls
    /\ \E obj \in top_level(objects),
          target \in {BACKGROUND_GRID, BACKGROUND_SOURCE_COLLECTION_NAME} :
          LinkCall("keep_scene",
              link_object_and_hierarchy_keep_scene(objects, users_collection,
                                                   obj, target),
              obj, target)

\* the user links an object to one more collection in the outliner
UserLinksObject ==
    /\ Len(calls) < MaxCalls
    /\ \E n \in 1..Len(objects), coll \in {SCENE_COLLECTION, USER_COLLECTION} :
          /\ coll \notin users_collection[n]
          /\ users_collection' = [users_collection EXCEPT ![n] = @ \cup {coll}]
          /\ calls' = Append(calls,
                 [fn |-> "user_link", variant |-> "", obj |-> n, arg |-> coll,
                  map |-> EmptyDict, events |-> <<>>, ret |-> None,
                  before |-> users_collection])
    /\ UNCHANGED <<objects, data_blocks>>

\* the user edits the geometry of one object's data block
UserEditsData ==
    /\ Len(calls) < MaxCalls
    /\ \E n \in 1..Len(objects) :
          /\ objects[n].data # None
          /\ data_blocks' = [data_blocks EXCEPT ![objects[n].data].geometry = 1 - @]
          /\ calls' = Append(calls,
                 [fn |-> "user_edit", variant |-> "", obj |-> n, arg |-> "",
                  map |-> EmptyDict, events |-> <<>>, ret |-> None,
                  before |-> users_collection])
    /\ UNCHANGED <<objects, users_collection>>

\* the scene at rest, for the specifications of the stats generator
SceneIdle ==
    /\ objects = <<>>
    /\ data_blocks = <<>>
    /\ users_collection = <<>>
    /\ calls = <<>>

\* ------------------------------------------------------------------------
\* BackgroundGridGeneratorOperator: execute, modal, finish_operation
\* ------------------------------------------------------------------------
VARIABLES
    op                 \* the operator instance: its fields and what it returned

gridVars == <<op>>

\* cells per timer event (BATCH_SIZE of the two grid generators)
GRID_BATCH_SIZE == 5
\* the largest DUPLICATION_GRID_X and DUPLICATION_GRID_Y of a run
MaxGridX == 5
MaxGridY == 2
\* the largest number of objects of the model a grid is generated from
MaxGridNodes == 2

\* the models the grid scripts import: the imported models of at most
\* MaxGridNodes objects
GridModels == {SubSeq(model, 1, MaxGridNodes) : model \in SourceModels}

IdleOp ==
    [variant |-> "", status |-> "idle", timer |-> FALSE,
     grid_x |-> 0, grid_y |-> 0, current_i |-> 0, current_j |-> 0,
     grid_parent |-> None, top_level_model_roots |-> <<>>,
     active_collection |-> SCENE_COLLECTION,
     file_type |-> "", import_ops |-> <<>>, should_rebuild |-> FALSE,
     ticks |-> 0, finish_calls |-> 0, created |-> {}, cells |-> <<>>]

\* the three scripts that define BackgroundGridGeneratorOperator:
\* Blender_Buildings_Generator.py, Blender_Background_Generator.py,
\* background_import_script.py
GridVariants == {"buildings", "background", "import_script"}

\* MODEL_TYPE, and file_type.upper()
FileTypes == {"gltf", "Obj", "FBX", "stl"}
py_upper(s) ==
    CASE s = "gltf" -> "GLTF"
      [] s = "Obj" -> "OBJ"
      [] s = "stl" -> "STL"
      [] OTHER -> s

\* the keys of import_ops, the branches of the if/elif chain
accepts_any_type(file_type) == TRUE
supported_file_type(file_type) == py_upper(file_type) \in {"GLTF", "OBJ", "FBX"}

\* import_and_prepare_model: the import operators invoked and the objects
\* returned, <<>> standing for None; new_objects is what the importer adds
import_and_prepare_model(file_exists, file_type, new_objects) ==
    IF ~file_exists
    THEN [import_ops |-> <<>>, ret |-> <<>>]
    ELSE IF ~supported_file_type(file_type)
    THEN [import_ops |-> <<>>, ret |-> <<>>]
    ELSE [import_ops |-> <<py_upper(file_type)>>, ret |-> new_objects]

\* bpy.ops.object.empty_add: a new empty, linked to the active collection
empty_add(g, name, active_collection) ==
    [g EXCEPT
       !.objects = Append(@, [name |-> name, parent |-> None, data |-> None,
                              matrix_parent_inverse |-> 0,
                              animation_data |-> FALSE]),
       !.users = [n \in 1..(Len(g.objects) + 1) |->
                     IF n <= Len(g.objects) THEN g.users[n]
                     ELSE {active_collection}]]

\* grid_parent.matrix_world.inverted()
MasterInverse == 1

\* the functions of the module the operator lives in
LinkerOf(variant, objs, users, obj, target_collection) ==
    IF variant = "background"
    THEN link_object_and_hierarchy_keep_scene(objs, users, obj, target_collection)
    ELSE link_object_and_hierarchy_to_collection(objs, users, obj, target_collection)

DuplicatorOf(variant, objs, blocks, obj, new_name_prefix) ==
    IF variant = "buildings"
    THEN duplicate_object_with_hierarchy(objs, blocks, obj, new_name_prefix)
    ELSE duplicate_object_with_hierarchy_recursive(objs, blocks, obj, new_name_prefix)

\* "for obj_to_copy_index, obj_to_copy in enumerate(self._top_level_model_roots)"
RECURSIVE duplicate_roots(_, _, _, _, _)
duplicate_roots(g, o, k, grid_cell_parent, instance_name_base) ==
    IF k > Len(o.top_level_model_roots) THEN g
    ELSE LET new_instance_root_name_prefix ==
                 instance_name_base \o <<"Model", k - 1>>
             dup == DuplicatorOf(o.variant, g.objects, g.data_blocks,
                                 o.top_level_model_roots[k],
                                 new_instance_root_name_prefix)
             duplicated_root_obj == dup.ret
             unlinked == [n \in 1..Len(dup.objects) |->
                             IF n <= Len(g.objects) THEN g.users[n] ELSE {}]
             linked == LinkerOf(o.variant, dup.objects, unlinked,
                                duplicated_root_obj, BACKGROUND_GRID)
         IN  duplicate_roots(
                 [objects |-> [dup.objects EXCEPT
                                  ![duplicated_root_obj].parent = grid_cell_parent],
                  data_blocks |-> dup.data_blocks,
                  users |-> linked.users,
                  created |-> g.created \cup
                                 ((Len(g.objects) + 1)..Len(dup.objects))],
                 o, k + 1, grid_cell_parent, instance_name_base)

\* one grid cell: the cell parent empty and one duplicate of every root
create_cell(g, o) ==
    LET instance_name_base == <<"Grid", o.current_i, o.current_j>>
        grid_cell_parent == Len(g.objects) + 1
        added == empty_add(g, instance_name_base \o <<"Cell_Parent">>,
                           o.active_collection)
        linked == LinkerOf(o.variant, added.objects, added.users,
                           grid_cell_parent, BACKGROUND_GRID)
        parented == [added EXCEPT
                        !.users = linked.users,
                        !.objects[grid_cell_parent].parent = o.grid_parent,
                        !.objects[grid_cell_parent].matrix_parent_inverse =
                            MasterInverse,
                        !.created = @ \cup {grid_cell_parent}]
    IN  duplicate_roots(parented, o, 1, grid_cell_parent, instance_name_base)

\* self._current_j += 1, and the next column when the row is full
next_cell_same_column(o) == [o EXCEPT !.current_j = @ + 1]
next_cell(o) ==
    IF o.current_j + 1 >= o.grid_y
    THEN [o EXCEPT !.current_j = 0, !.current_i = @ + 1]
    ELSE [o EXCEPT !.current_j = @ + 1]

\* bpy.data.objects.remove / bpy.ops.object.delete: the objects of gone leave
\* the scene, their children lose their parent
IndexIn(seq, v) == CHOOSE i \in 1..Len(seq) : seq[i] = v

remove_objects(g, o, gone) ==
    LET keep == SortedSeq((1..Len(g.objects)) \ gone)
    IN  [g |-> [objects |-> [i \in 1..Len(keep) |->
                                [g.objects[keep[i]] EXCEPT
                                    !.parent = IF @ = None \/ @ \in gone
                                               THEN None
                                               ELSE IndexIn(keep, @)]],
                data_blocks |-> g.data_blocks,
                users |-> [i \in 1..Len(keep) |-> g.users[keep[i]]],
                created |-> {IndexIn(keep, n) : n \in g.created \ gone}],
         op |-> [o EXCEPT
                   !.grid_parent = IF @ = None \/ @ \in gone THEN None
                                   ELSE IndexIn(keep, @)]]

\* finish_operation: the timer is removed once; background_import_script.py
\* also deletes the imported top-level roots
finish_twice(g, o) ==
    [g |-> g, op |-> [o EXCEPT !.timer = FALSE, !.finish_calls = @ + 2]]
finish_operation(g, o) ==
    LET done == [o EXCEPT !.timer = FALSE, !.finish_calls = @ + 1]
    IN  IF o.variant = "import_script"
        THEN remove_objects(g, done,
                 {o.top_level_model_roots[k] :
                     k \in 1..Len(o.top_level_model_roots)})
        ELSE [g |-> g, op |-> done]

\* the loop of modal in background_import_script.py: it breaks when the last
\* cell is done, and completion is tested after the loop
RECURSIVE process_cells_break(_, _, _)
process_cells_break(g, o, n) ==
    IF n >= GRID_BATCH_SIZE \/ o.current_i >= o.grid_x
    THEN IF o.current_i >= o.grid_x
         THEN LET fin == finish_operation(g, o)
              IN  [g |-> fin.g, op |-> [fin.op EXCEPT !.status = "FINISHED"]]
         ELSE [g |-> g, op |-> o]
    ELSE LET cell == create_cell(g, o)
         IN  IF Len(cell.objects) > Len(g.objects)
             THEN process_cells_break(
                      cell,
                      [next_cell(o) EXCEPT
                          !.cells = Append(@, <<o.current_i, o.current_j>>)],
                      n + 1)
             ELSE [g |-> g, op |-> o]

\* "for _ in range(BATCH_SIZE)" of modal in Blender_Buildings_Generator.py
\* and Blender_Background_Generator.py: completion is seen at the start of an
\* iteration
RECURSIVE process_cells(_, _, _)
process_cells_checked_last(g, o, n) == process_cells_break(g, o, n)
process_cells(g, o, n) ==
    IF n >= GRID_BATCH_SIZE
    THEN [g |-> g, op |-> o]
    ELSE IF o.current_i >= o.grid_x
    THEN LET fin == finish_operation(g, o)
         IN  [g |-> fin.g, op |-> [fin.op EXCEPT !.status = "FINISHED"]]
    ELSE LET cell == create_cell(g, o)
         IN  \* grid_cell_parent = bpy.context.active_object: the new empty
             IF Len(cell.objects) > Len(g.objects)
             THEN process_cells(
                      cell,
                      [next_cell(o) EXCEPT
                          !.cells = Append(@, <<o.current_i, o.current_j>>)],
                      n + 1)
             ELSE [g |-> g, op |-> o]

SceneOf(created) ==
    [objects |-> objects, data_blocks |-> data_blocks,
     users |-> users_collection, created |-> created]

\* the scene right after an import: every new object is in the source
\* collection, or where the importer put it (background_import_script.py)
ImportedScene(model, collection) ==
    [objects |-> model,
     data_blocks |-> [d \in 1..Len(model) |->
                         [name |-> <<"Mesh", d>>, geometry |-> 0]],
     users |-> [n \in 1..Len(model) |-> {collection}],
     created |-> {}]

\* self._top_level_model_roots: the objects without parent among those the
\* import returned, or among those of the source collection
model_roots(variant, g) ==
    SortedSeq({n \in top_level(g.objects) :
                  \/ variant = "import_script"
                  \/ BACKGROUND_SOURCE_COLLECTION_NAME \in g.users[n]})

\* bpy.data.objects.get("Background_Grid_Master"); the Background_Grid
\* collection is made together with it and removed by no script
GRID_MASTER_NAME == <<"Background_Grid_Master">>
existing_grid_parent(g) ==
    IF \E n \in 1..Len(g.objects) : g.objects[n].name = GRID_MASTER_NAME
    THEN CHOOSE n \in 1..Len(g.objects) : g.objects[n].name = GRID_MASTER_NAME
    ELSE None

has_existing_grid_content(g, master) ==
    \E n \in 1..Len(g.objects) : n # master /\ BACKGROUND_GRID \in g.users[n]

\* a new Background_Grid collection and its master empty, which every
\* script leaves in the grid collection only
create_grid_master(g, active_collection) ==
    LET added == empty_add(g, GRID_MASTER_NAME, active_collection)
        linked == link_object_and_hierarchy_to_collection(
                      added.objects, added.users, Len(g.objects) + 1,
                      BACKGROUND_GRID)
    IN  [added EXCEPT !.users = linked.users]

\* the rebuild branch of execute: the objects of the grid collection other
\* than the master are removed; Blender_Background_Generator.py only unlinks
\* those that are also in a collection other than the scene collection
clear_existing_grid(variant, g, master) ==
    LET in_grid == {n \in 1..Len(g.objects) :
                       n # master /\ BACKGROUND_GRID \in g.users[n]}
        objects_to_delete ==
            IF variant = "background"
            THEN {n \in in_grid :
                     g.users[n] \subseteq {BACKGROUND_GRID, SCENE_COLLECTION}}
            ELSE in_grid
        unlinked == [g EXCEPT !.users =
                        [n \in 1..Len(g.objects) |->
                            IF n \in in_grid \ objects_to_delete
                            THEN g.users[n] \ {BACKGROUND_GRID}
                            ELSE g.users[n]]]
    IN  remove_objects(unlinked, [IdleOp EXCEPT !.grid_parent = master],
                       objects_to_delete)

\* the run set up by execute: grid size, cursor, progress bar, timer
start_run(o, variant, grid_x, grid_y, grid_parent, roots, active_collection) ==
    [o EXCEPT
        !.variant = variant,
        !.status = "RUNNING_MODAL",
        !.timer = TRUE,
        !.grid_x = grid_x, !.grid_y = grid_y,
        !.current_i = 0, !.current_j = 0,
        !.grid_parent = grid_parent,
        !.top_level_model_roots = roots,
        !.active_collection = active_collection]

\* execute: the source model is imported unless the source collection has
\* objects (background_import_script.py always imports into its empty scene);
\* an existing grid with content is kept unless a rebuild is asked for;
\* otherwise the grid collection and its master empty are found or made and
\* the timer is started
execute ==
    /\ op.status = "idle"
    /\ \E variant \in GridVariants,
          grid_x \in 1..MaxGridX, grid_y \in 1..MaxGridY,
          new_objects \in GridModels \cup {<<>>},
          file_exists \in BOOLEAN, file_type \in FileTypes,
          should_rebuild \in BOOLEAN,
          active \in {SCENE_COLLECTION, USER_COLLECTION} :
          LET imports == objects = <<>>
              imported == import_and_prepare_model(file_exists, file_type,
                                                   new_objects)
              g0 == IF imports
                    THEN ImportedScene(imported.ret,
                             IF variant = "import_script" THEN active
                             ELSE BACKGROUND_SOURCE_COLLECTION_NAME)
                    ELSE SceneOf({})
              roots == model_roots(variant, g0)
              master == existing_grid_parent(g0)
              has_content == master # None /\ has_existing_grid_content(g0, master)
              o0 == [IdleOp EXCEPT
                       !.variant = variant,
                       !.file_type = IF imports THEN file_type ELSE "",
                       !.import_ops = IF imports THEN imported.import_ops ELSE <<>>,
                       !.should_rebuild = should_rebuild]
          IN  \* the arguments that are not read are not enumerated
              /\ ~imports =>
                    /\ new_objects = <<>> /\ file_exists /\ file_type = "gltf"
                    /\ variant # "import_script"
              /\ (imports /\ (~file_exists \/ ~supported_file_type(file_type)))
                    => new_objects = <<>>
              /\ ~has_content => ~should_rebuild
              \* import_and_prepare_model of Blender_Buildings_Generator.py makes
              \* the scene collection the active one; in the Background module it
              \* does so only when a collection carries the scene collection's
              \* name, so the active collection is the one the user left
              /\ (variant = "buildings" /\ imports) => active = SCENE_COLLECTION
              /\ IF roots = <<>>
                 THEN \* import failed, or no top-level object
                      /\ op' = [o0 EXCEPT !.status = "CANCELLED"]
                      /\ UNCHANGED <<objects, data_blocks, users_collection>>
                 ELSE IF has_content /\ ~should_rebuild
                 THEN \* the grid is kept: finish_operation, FINISHED
                      LET fin == finish_operation(g0, [o0 EXCEPT !.grid_parent = master])
                      IN  /\ op' = [fin.op EXCEPT !.status = "FINISHED"]
                          /\ objects' = fin.g.objects
                          /\ data_blocks' = fin.g.data_blocks
                          /\ users_collection' = fin.g.users
                 ELSE LET cleared == IF master # None
                                     THEN clear_existing_grid(variant, g0, master)
                                     ELSE [g |-> create_grid_master(g0, active),
                                           op |-> [IdleOp EXCEPT !.grid_parent =
                                                      Len(g0.objects) + 1]]
                      IN  /\ objects' = cleared.g.objects
                          /\ data_blocks' = cleared.g.data_blocks
                          /\ users_collection' = cleared.g.users
                          /\ op' = start_run(o0, variant, grid_x, grid_y,
                                             cleared.op.grid_parent,
                                             IF master # None
                                             THEN model_roots(variant, cleared.g)
                                             ELSE roots,
                                             active)
    /\ UNCHANGED calls

\* modal on a TIMER event
modal_timer ==
    /\ op.status = "RUNNING_MODAL"
    /\ LET done == IF op.variant = "import_script"
                   THEN process_cells_break(SceneOf(op.created), op, 0)
                   ELSE process_cells(SceneOf(op.created), op, 0)
       IN  /\ objects' = done.g.objects
           /\ data_blocks' = done.g.data_blocks
           /\ users_collection' = done.g.users
           /\ op' = [done.op EXCEPT !.ticks = @ + 1,
                                    !.created = done.g.created]
    /\ UNCHANGED calls

\* modal on an ESC event
modal_esc ==
    /\ op.status = "RUNNING_MODAL"
    /\ LET fin == finish_operation(SceneOf(op.created), op)
       IN  /\ objects' = fin.g.objects
           /\ data_blocks' = fin.g.data_blocks
           /\ users_collection' = fin.g.users
           /\ op' = [fin.op EXCEPT !.status = "CANCELLED",
                                   !.created = fin.g.created]
    /\ UNCHANGED calls

\* a scene with source models from an earlier import
GridSourceInit ==
    /\ \E model \in GridModels :
          LET g == ImportedScene(model, BACKGROUND_SOURCE_COLLECTION_NAME)
          IN  /\ objects = g.objects
              /\ data_blocks = g.data_blocks
              /\ users_collection = g.users
    /\ calls = <<>>

\* a scene in which a grid was generated earlier: the source models, the
\* master empty and, when the earlier run got that far, the first cell
ExistingGridScenes ==
    {LET g0 == create_grid_master(
                   ImportedScene(model, BACKGROUND_SOURCE_COLLECTION_NAME),
                   SCENE_COLLECTION)
         o == [IdleOp EXCEPT
                 !.variant = variant,
                 !.grid_parent = Len(model) + 1,
                 !.top_level_model_roots = SortedSeq(top_level(model))]
     IN  IF with_cell THEN create_cell(g0, o) ELSE g0 :
        model \in GridModels, variant \in {"buildings", "background"},
        with_cell \in BOOLEAN}

ExistingGridInit ==
    /\ \E g \in ExistingGridScenes :
          /\ objects = g.objects
          /\ data_blocks = g.data_blocks
          /\ users_collection = g.users
    /\ calls = <<>>

\* a scene in which the operator is not running: empty, or with source
\* models from an earlier import, or with a grid from an earlier run
GridInit ==
    /\ \/ GridSourceInit
       \/ SceneIdle
       \/ ExistingGridInit
    /\ op = IdleOp

\* ------------------------------------------------------------------------
\* CSV input: parse_csv_data (Stats_Generator.py), read_csv_data
\* (Blender_Graph_Animator.py)
\* ------------------------------------------------------------------------
VARIABLES
    csv_file,          \* the data rows of the file, below the header
    csv_result         \* what the parser returned, and the rows it skipped

csvVars == <<csv_file, csv_result>>

MaxCsvRows == 3
MaxCsvValue == 2

\* a cell of a data row: the text of a number, any other text, or no cell
\* at all because the row ends before the column
NumberCell(v) == [kind |-> "number", value |-> v]
TextCell == [kind |-> "text", value |-> 0]
MissingCell == [kind |-> "missing", value |-> 0]

\* float(cell) and int(cell): the value, or the exception raised
py_float(cell) ==
    IF cell.kind = "number" THEN [raised |-> "none", value |-> cell.value * Unit]
    ELSE IF cell.kind = "text" THEN [raised |-> "ValueError", value |-> 0]
    ELSE [raised |-> "TypeError", value |-> 0]

py_int(cell) ==
    IF cell.kind = "number" THEN [raised |-> "none", value |-> cell.value]
    ELSE IF cell.kind = "text" THEN [raised |-> "ValueError", value |-> 0]
    ELSE [raised |-> "TypeError", value |-> 0]

\* data.sort(key=lambda x: x['DataValue']): stable
RECURSIVE insert_by_value(_, _)
insert_by_value(sorted, rec) ==
    IF sorted = <<>> THEN <<rec>>
    ELSE IF sorted[Len(sorted)].DataValue <= rec.DataValue
         THEN Append(sorted, rec)
         ELSE Append(insert_by_value(SubSeq(sorted, 1, Len(sorted) - 1), rec),
                     sorted[Len(sorted)])

RECURSIVE sort_by_value(_)
sort_by_value(data) ==
    IF data = <<>> THEN <<>>
    ELSE insert_by_value(sort_by_value(SubSeq(data, 1, Len(data) - 1)),
                         data[Len(data)])

\* the row loop of parse_csv_data: ValueError and KeyError skip the row, any
\* other exception leaves the loop and reaches the outer handler
caught_by_row_handler(raised) == raised \in {"ValueError", "KeyError"}

RECURSIVE parse_rows(_, _, _)
parse_rows(rows, i, acc) ==
    IF i > Len(rows) THEN acc
    ELSE LET row == rows[i]
             data_value == py_float(row.data)
             population_value == py_int(row.population)
             raised == IF data_value.raised # "none" THEN data_value.raised
                       ELSE population_value.raised
         IN  IF raised = "none"
             THEN parse_rows(rows, i + 1,
                      [acc EXCEPT !.data = Append(@,
                          [ID |-> i - 1, Category |-> row.category,
                           Population |-> population_value.value,
                           DataValue |-> data_value.value])])
             ELSE IF caught_by_row_handler(raised)
             THEN parse_rows(rows, i + 1, [acc EXCEPT !.skipped = @ \cup {i}])
             ELSE [acc EXCEPT !.raised = raised]

\* parse_csv_data: the sorted records, or [] from "except Exception"
parse_csv_rows(rows) ==
    LET done == parse_rows(rows, 1, [data |-> <<>>, skipped |-> {}, raised |-> "none"])
    IN  IF done.raised = "none"
        THEN [done EXCEPT !.data = sort_by_value(@)]
        ELSE [done EXCEPT !.data = <<>>]

\* the row loop of read_csv_data: a row shorter than the data column is
\* skipped by the length test, a cell that is not a number by ValueError
RECURSIVE read_rows(_, _, _)
read_rows(rows, i, acc) ==
    IF i > Len(rows) THEN acc
    ELSE LET row == rows[i]
         IN  IF row.data.kind = "missing"
             THEN read_rows(rows, i + 1, [acc EXCEPT !.skipped = @ \cup {i}])
             ELSE LET data_value == py_float(row.data)
                  IN  IF data_value.raised = "none"
                      THEN read_rows(rows, i + 1,
                               [acc EXCEPT !.data = Append(@,
                                   [ID |-> i - 1, Category |-> row.category,
                                    Population |-> 0,
                                    DataValue |-> data_value.value])])
                      ELSE read_rows(rows, i + 1,
                               [acc EXCEPT !.skipped = @ \cup {i}])

read_csv_rows(rows) ==
    read_rows(rows, 1, [data |-> <<>>, skipped |-> {}, raised |-> "none"])

\* the files: every row has a category label, a magnitude cell and a
\* population cell
DataCells == {NumberCell(v) : v \in 1..MaxCsvValue} \cup {TextCell, MissingCell}
PopulationCells == {NumberCell(1), TextCell}
CsvRows == [category : {"A"}, data : DataCells, population : PopulationCells]
CsvFiles == UNION {[1..n -> CsvRows] : n \in 0..MaxCsvRows}

NoCsvResult == [fn |-> "none", data |-> <<>>, skipped |-> {}, raised |-> "none"]

CsvInit ==
    /\ csv_file \in CsvFiles
    /\ csv_result = NoCsvResult

CsvIdle ==
    /\ csv_file = <<>>
    /\ csv_result = NoCsvResult

parse_csv_data ==
    /\ csv_result.fn = "none"
    /\ LET r == parse_csv_rows(csv_file)
       IN  csv_result' = [fn |-> "parse_csv_data", data |-> r.data,
                          skipped |-> r.skipped, raised |-> r.raised]
    /\ UNCHANGED csv_file

read_csv_data ==
    /\ csv_result.fn = "none"
    /\ LET r == read_csv_rows(csv_file)
       IN  csv_result' = [fn |-> "read_csv_data", data |-> r.data,
                          skipped |-> r.skipped, raised |-> r.raised]
    /\ UNCHANGED csv_file

\* ------------------------------------------------------------------------
\* _process_models_batch under other values of the module constant
\* BATCH_SIZE
\* ------------------------------------------------------------------------
VARIABLES
    batch_run          \* BATCH_SIZE, the cursor of the context, the ticks run

batchVars == <<batch_run>>

MaxBatchSize == 4

NoBatchRun ==
    [batch_size |-> 0, model_data_to_process |-> <<>>,
     current_model_index |-> 0, current_x_position_for_next_model |-> 0,
     objs |-> {}, ticks |-> 0]

BatchIdle == batch_run = NoBatchRun

\* the context generate_stats_models hands to the first tick
BatchInit ==
    \E ws \in PlannedWidths, batch_size \in 1..MaxBatchSize :
        batch_run = [NoBatchRun EXCEPT
                        !.batch_size = batch_size,
                        !.model_data_to_process = PlannedItems(ws)]

\* one tick with the source model present
process_models_batch_sized ==
    /\ batch_run.current_model_index < Len(batch_run.model_data_to_process)
    /\ LET batch_start == batch_run.current_model_index
           batch_end == batch_end_for(batch_run.current_model_index,
                                      batch_run.batch_size,
                                      Len(batch_run.model_data_to_process))
           st == PlaceRange(
                     [items  |-> batch_run.model_data_to_process,
                      x_next |-> resumed_x_position(
                          batch_run.current_x_position_for_next_model),
                      objs   |-> batch_run.objs,
                      placed |-> <<>>],
                     batch_start, batch_end,
                     PROPORTIONAL_GAP_FACTOR, MIN_CLEARANCE_BETWEEN_MODELS)
       IN  batch_run' = [batch_run EXCEPT
                           !.model_data_to_process = st.items,
                           !.current_model_index = batch_end,
                           !.current_x_position_for_next_model = st.x_next,
                           !.objs = st.objs,
                           !.ticks = @ + 1]

\* ------------------------------------------------------------------------
\* The pipeline of Init_Blender_Animation.py
\* ------------------------------------------------------------------------
VARIABLES
    stats_generator_results,  \* the module global _stats_generator_results
    step_timers,     \* registrations of _run_graph_and_camera_animation_step
    pipeline_status, \* what InitAnimationOperator.execute returned last
    pipeline_log     \* the generators the step has called since execute

pipeVars == <<stats_generator_results, step_timers, pipeline_status,
              pipeline_log>>

NoResults == [model_collection_name |-> "", all_model_data |-> <<>>,
              set |-> FALSE]

\* clear_all_script_generated_elements: the collections named Viz_*,
\* Source_* and <visualization>_* lose their objects and, being empty and
\* visited children first, are removed
clear_all_script_generated_elements(colls, objs) ==
    [collections |-> colls \ {ROOT, SOURCE, DUPLICATES},
     coll_objects |-> [c \in CollNames |-> {}]]

\* stats_generator_completion_callback: the results are stored and the step
\* is registered as a timer
stats_generator_completion_callback(model_collection_name, all_model_data_list) ==
    /\ stats_generator_results' =
          [model_collection_name |-> model_collection_name,
           all_model_data |-> all_model_data_list,
           set |-> TRUE]
    /\ step_timers' = step_timers + 1

\* the calls of completion_callback made by the stats step just taken
CallbackOfThisStep(before) ==
    IF Len(callback_calls') > before
    THEN stats_generator_completion_callback(
             callback_calls'[Len(callback_calls')].collection,
             callback_calls'[Len(callback_calls')].items)
    ELSE UNCHANGED <<stats_generator_results, step_timers>>

\* InitAnimationOperator.execute
InitAnimationOperator_execute ==
    /\ ~timer_registered
    /\ step_timers = 0
    /\ \E scripts_imported \in BOOLEAN, REBUILD_ALL_ON_RUN \in BOOLEAN :
          IF ~scripts_imported
          THEN /\ pipeline_status' = "CANCELLED"
               /\ UNCHANGED <<statsVars, stats_generator_results, step_timers,
                              pipeline_log>>
          ELSE LET cleared ==
                     IF REBUILD_ALL_ON_RUN
                     THEN clear_all_script_generated_elements(collections,
                                                               coll_objects)
                     ELSE [collections |-> collections,
                           coll_objects |-> coll_objects]
               IN  \* batch_size = STATS_GENERATOR_CONFIG["BATCH_SIZE"],
                   \* rebuild_on_run = REBUILD_ALL_ON_RUN,
                   \* completion_callback = stats_generator_completion_callback
                   /\ generate_stats_models_from(
                          cleared.collections, cleared.coll_objects,
                          {BATCH_SIZE}, {REBUILD_ALL_ON_RUN}, {TRUE})
                   /\ CallbackOfThisStep(0)
                   /\ pipeline_status' = "FINISHED"
                   /\ pipeline_log' = <<>>

\* a tick of _process_models_batch in a run the pipeline started
pipeline_process_models_batch ==
    /\ process_models_batch
    /\ CallbackOfThisStep(Len(callback_calls))
    /\ UNCHANGED <<pipeline_status, pipeline_log>>

\* the two generators the step calls, in the order it calls them
camera_then_graph(graph_results, camera_success) ==
    <<[generator |-> "camera", ok |-> camera_success],
      [generator |-> "graph", ok |-> graph_results]>>
graph_then_camera(graph_results, camera_success) ==
    <<[generator |-> "graph", ok |-> graph_results],
      [generator |-> "camera", ok |-> camera_success]>>

\* _run_graph_and_camera_animation_step: a timer function that returns None
\* and so runs once per registration
run_graph_and_camera_animation_step ==
    /\ step_timers > 0
    /\ step_timers' = step_timers - 1
    /\ IF ~stats_generator_results.set
       THEN UNCHANGED pipeline_log
       ELSE \E graph_results \in BOOLEAN, camera_success \in BOOLEAN :
               pipeline_log' = pipeline_log \o
                   graph_then_camera(graph_results, camera_success)
    /\ UNCHANGED <<statsVars, stats_generator_results, pipeline_status>>

PipeIdle ==
    /\ stats_generator_results = NoResults
    /\ step_timers = 0
    /\ pipeline_status = "none"
    /\ pipeline_log = <<>>

\* ------------------------------------------------------------------------
\* Specifications
\* ------------------------------------------------------------------------
vars == <<statsVars, planVars, sceneVars, gridVars, csvVars, batchVars,
          pipeVars>>

Init == StatsInit /\ PlanIdle /\ SceneIdle /\ op = IdleOp /\ CsvIdle /\ BatchIdle /\ PipeIdle

Next ==
    \/ generate_stats_models /\ UNCHANGED <<planVars, sceneVars, gridVars, csvVars, batchVars, pipeVars>>
    \/ process_models_batch /\ UNCHANGED <<planVars, sceneVars, gridVars, csvVars, batchVars, pipeVars>>
    \/ SourceModelRemoved /\ UNCHANGED <<planVars, sceneVars, gridVars, csvVars, batchVars, pipeVars>>
    \/ UserCancel /\ UNCHANGED <<planVars, sceneVars, gridVars, csvVars, batchVars, pipeVars>>

Spec == Init /\ [][Next]_vars

InitPlan == StatsInit /\ PlanInit /\ SceneIdle /\ op = IdleOp /\ CsvIdle /\ BatchIdle /\ PipeIdle

NextPlan == plan_row /\ UNCHANGED <<statsVars, sceneVars, gridVars, csvVars, batchVars, pipeVars>>

SpecPlan == InitPlan /\ [][NextPlan]_vars

InitScene == StatsInit /\ PlanIdle /\ SceneInit /\ op = IdleOp /\ CsvIdle /\ BatchIdle /\ PipeIdle

NextScene ==
    \/ DuplicateIterative /\ UNCHANGED <<statsVars, planVars, gridVars, csvVars, batchVars, pipeVars>>
    \/ DuplicateRecursive /\ UNCHANGED <<statsVars, planVars, gridVars, csvVars, batchVars, pipeVars>>
    \/ LinkExclusive /\ UNCHANGED <<statsVars, planVars, gridVars, csvVars, batchVars, pipeVars>>
    \/ LinkKeepScene /\ UNCHANGED <<statsVars, planVars, gridVars, csvVars, batchVars, pipeVars>>
    \/ UserLinksObject /\ UNCHANGED <<statsVars, planVars, gridVars, csvVars, batchVars, pipeVars>>
    \/ UserEditsData /\ UNCHANGED <<statsVars, planVars, gridVars, csvVars, batchVars, pipeVars>>

SpecScene == InitScene /\ [][NextScene]_vars

InitGrid == StatsInit /\ PlanIdle /\ GridInit /\ CsvIdle /\ BatchIdle /\ PipeIdle

NextGrid ==
    \/ execute /\ UNCHANGED <<statsVars, planVars, csvVars, batchVars, pipeVars>>
    \/ modal_timer /\ UNCHANGED <<statsVars, planVars, csvVars, batchVars, pipeVars>>
    \/ modal_esc /\ UNCHANGED <<statsVars, planVars, csvVars, batchVars, pipeVars>>

SpecGrid == InitGrid /\ [][NextGrid]_vars

InitCsv == StatsInit /\ PlanIdle /\ SceneIdle /\ op = IdleOp /\ CsvInit /\ BatchIdle /\ PipeIdle

NextCsv ==
    \/ parse_csv_data /\ UNCHANGED <<statsVars, planVars, sceneVars, gridVars, batchVars, pipeVars>>
    \/ read_csv_data /\ UNCHANGED <<statsVars, planVars, sceneVars, gridVars, batchVars, pipeVars>>

SpecCsv == InitCsv /\ [][NextCsv]_vars

InitBatch ==
    StatsInit /\ PlanIdle /\ SceneIdle /\ op = IdleOp /\ CsvIdle /\ BatchInit /\ PipeIdle

NextBatch ==
    process_models_batch_sized
        /\ UNCHANGED <<statsVars, planVars, sceneVars, gridVars, csvVars, pipeVars>>

SpecBatch == InitBatch /\ [][NextBatch]_vars

\* The stats generator and the grid operator in one specification: the two
\* scripts share no state, so the runs of each are explored while the other
\* has not been started.
GridAtRest == SceneIdle /\ op = IdleOp

InitSkip == StatsInit /\ PlanIdle /\ GridInit /\ CsvIdle /\ BatchIdle /\ PipeIdle

NextSkip ==
    \/ GridAtRest /\ generate_stats_models
          /\ UNCHANGED <<planVars, sceneVars, gridVars, csvVars, batchVars, pipeVars>>
    \/ GridAtRest /\ process_models_batch
          /\ UNCHANGED <<planVars, sceneVars, gridVars, csvVars, batchVars, pipeVars>>
    \/ GridAtRest /\ SourceModelRemoved
          /\ UNCHANGED <<planVars, sceneVars, gridVars, csvVars, batchVars, pipeVars>>
    \/ GridAtRest /\ UserCancel
          /\ UNCHANGED <<planVars, sceneVars, gridVars, csvVars, batchVars, pipeVars>>
    \/ StatsInit /\ execute
          /\ UNCHANGED <<statsVars, planVars, csvVars, batchVars, pipeVars>>
    \/ StatsInit /\ modal_timer
          /\ UNCHANGED <<statsVars, planVars, csvVars, batchVars, pipeVars>>
    \/ StatsInit /\ modal_esc
          /\ UNCHANGED <<statsVars, planVars, csvVars, batchVars, pipeVars>>

SpecSkip == InitSkip /\ [][NextSkip]_vars

\* The pipeline: the operator, the ticks of the stats scheduler it started,
\* the step the callback registers, and the host between two ticks
InitPipeline ==
    StatsInit /\ PlanIdle /\ SceneIdle /\ op = IdleOp /\ CsvIdle /\ BatchIdle
        /\ PipeIdle

NextPipeline ==
    \/ InitAnimationOperator_execute
          /\ UNCHANGED <<planVars, sceneVars, gridVars, csvVars, batchVars>>
    \/ pipeline_process_models_batch
          /\ UNCHANGED <<planVars, sceneVars, gridVars, csvVars, batchVars>>
    \/ run_graph_and_camera_animation_step
          /\ UNCHANGED <<planVars, sceneVars, gridVars, csvVars, batchVars>>
    \/ SourceModelRemoved
          /\ UNCHANGED <<planVars, sceneVars, gridVars, csvVars, batchVars,
                         pipeVars>>
    \/ UserCancel
          /\ UNCHANGED <<planVars, sceneVars, gridVars, csvVars, batchVars,
                         pipeVars>>

SpecPipeline == InitPipeline /\ [][NextPipeline]_vars

\* The iterative duplicator called on any object of an imported model
InitDup ==
    StatsInit /\ PlanIdle /\ SceneInit /\ op = IdleOp /\ CsvIdle /\ BatchIdle
        /\ PipeIdle

NextDup ==
    DuplicateFrom
        /\ UNCHANGED <<statsVars, planVars, gridVars, csvVars, batchVars,
                       pipeVars>>

SpecDup == InitDup /\ [][NextDup]_vars

\* ------------------------------------------------------------------------
\* Properties of the batch scheduler (checked under Spec)
\* ------------------------------------------------------------------------
RECURSIVE Flatten(_)
Flatten(ss) == IF ss = <<>> THEN <<>> ELSE Head(ss) \o Flatten(Tail(ss))

\* the indices placed so far in the current run, in the order of placement
PlacedLog == Flatten(tick_placed)

CeilDiv(n, b) == (n + b - 1) \div b

Running == timer_registered
DuplicateObjects == coll_objects[DUPLICATES]

\* C1: a run over N items with batch size B completes in exactly ceil(N/B)
\* ticks, every tick but the last placing B items and the last the
\* remainder, and the completion callback is invoked exactly once, during the
\* last tick (7 items, batch_size 3: ticks of 3, 3 and 1 items).
C1_RunTakesCeilTicks ==
    run_result = "completed" =>
        LET N == run_args.n_items
            B == run_args.batch_size
        IN  /\ ticks = CeilDiv(N, B)
            /\ \A t \in 1..Len(tick_placed) :
                  Len(tick_placed[t]) = IF t < ticks THEN B ELSE N - B * (ticks - 1)
            /\ run_args.has_callback =>
                  /\ Len(callback_calls) = 1
                  /\ callback_calls[1].tick = ticks

\* C2: within one run current_model_index never decreases, the items are
\* placed in increasing index order, no index is placed twice, and at
\* completion every index 0..N-1 has been placed exactly once.
C2_IndexStep ==
    (Running /\ "current_model_index" \in DOMAIN batch_context') =>
        batch_context'.current_model_index >= batch_context.current_model_index

C2_PlacedInOrder ==
    /\ \A k \in 1..Len(PlacedLog) : PlacedLog[k] = k - 1
    /\ Running => Len(PlacedLog) = batch_context.current_model_index
    /\ run_result = "completed" =>
          /\ Len(PlacedLog) = run_args.n_items
          /\ \A i \in 0..(run_args.n_items - 1) :
                Cardinality({o \in DuplicateObjects : o.idx = i}) = 1

C2_EachIndexPlacedOnce == [](C2_PlacedInOrder) /\ [][C2_IndexStep]_vars

C2_Witness ==
    /\ run_result = "completed"
    /\ ticks = 2
    /\ Len(PlacedLog) = MaxItems

\* C3: a tick that finds the source model missing places no item, schedules
\* no further tick and invokes cleanup exactly once with the root collection
\* name; the remaining items are never placed and the completion callback is
\* never invoked.
C3_HaltStep ==
    (Running /\ SourceObj \notin coll_objects[SOURCE] /\ ticks' = ticks + 1) =>
        /\ tick_placed' = Append(tick_placed, <<>>)
        /\ DuplicateObjects' \subseteq DuplicateObjects
        /\ ~timer_registered'
        /\ cleanup_calls' = <<ROOT>>
        /\ callback_calls' = <<>>
        /\ run_result' = "halted"

C3_Halted ==
    run_result = "halted" =>
        /\ ~timer_registered
        /\ cleanup_calls = <<ROOT>>
        /\ callback_calls = <<>>
        /\ Len(PlacedLog) < run_args.n_items
        /\ Len(tick_placed) = ticks
        /\ tick_placed[ticks] = <<>>

C3_MissingSourceHalts == [](C3_Halted) /\ [][C3_HaltStep]_vars

C3_Witness ==
    /\ run_result = "halted"
    /\ ticks = 2
    /\ Len(PlacedLog) = BATCH_SIZE
    /\ run_args.has_callback

\* C4: once a cancel signal has been raised, a tick places no further item,
\* releases the timer and never invokes the completion callback; the items
\* placed before stay (cancel after tick 1 of 7 items with batch size 3 leaves
\* exactly 3 items).
C4_CancelStopsPlacement ==
    [][(cancel_requested /\ ticks' = ticks + 1) =>
          /\ tick_placed' = Append(tick_placed, <<>>)
          /\ DuplicateObjects' = DuplicateObjects
          /\ ~timer_registered'
          /\ callback_calls' = callback_calls]_vars

\* C5: _batch_context is empty whenever a run has ended, on the success path
\* and on every failure path.
C5_ContextEmptyAfterRun ==
    ~Running => DOMAIN batch_context = {}

\* C6 as stated: after a halt and its cleanup every item placed by the
\* earlier ticks is still in the duplicates collection.
C6_HaltKeepsPlacedItems ==
    run_result = "halted" =>
        \A k \in 1..Len(PlacedLog) :
            \E o \in DuplicateObjects : o.idx = PlacedLog[k]

\* C6 amended: the cleanup of a halted run deletes every object under the
\* root collection, so no item placed by the earlier ticks remains in the
\* duplicates collection, and the emptied duplicates collection is removed.
C6_HaltRemovesPlacedItems ==
    run_result = "halted" =>
        /\ DuplicateObjects = {}
        /\ DUPLICATES \notin collections

C6_Witness ==
    /\ run_result = "halted"
    /\ Len(PlacedLog) = BATCH_SIZE

\* C7: the completion callback of a run is invoked only when every item
\* 0..N-1 has been placed; it receives the duplicates collection name and the
\* full item list, in which world_x_pos of each item is the centre X of the
\* object placed for it.
C7_CallbackGetsPlacedItems ==
    \A c \in 1..Len(callback_calls) :
        callback_calls[c].tick > 0 =>
            LET call == callback_calls[c]
                N == run_args.n_items
            IN  /\ run_result = "completed"
                /\ Len(PlacedLog) = N
                /\ call.collection = DUPLICATES
                /\ Len(call.items) = N
                /\ \A i \in 1..N :
                      /\ call.items[i].Category = i - 1
                      /\ \E o \in DuplicateObjects :
                            /\ o.idx = i - 1
                            /\ o.x = call.items[i].world_x_pos

C7_Witness ==
    /\ Len(callback_calls) = 1
    /\ callback_calls[1].tick = 2
    /\ \E i \in 1..Len(callback_calls[1].items) :
          callback_calls[1].items[i].world_x_pos > 0

\* C8: a tick places at most batch_size items, and at least one item
\* whenever current_model_index < N at the start of the tick.
C8_TickPlacesOneBatch ==
    [][(Running /\ ticks' = ticks + 1) =>
          LET placed == Len(tick_placed'[ticks'])
          IN  /\ placed <= run_args.batch_size
              /\ batch_context.current_model_index
                    < Len(batch_context.model_data_to_process) => placed >= 1]_vars

\* ------------------------------------------------------------------------
\* Properties of the planning loop (checked under SpecPlan)
\* ------------------------------------------------------------------------
\* C9: when max magnitude > min magnitude, every scale_factor the planning
\* loop computes lies in [min_scale, max_scale], in linear and in
\* logarithmic mode.
C9_ScaleFactorInRange ==
    SeqMax(plan_in.values) > SeqMin(plan_in.values) =>
        \A i \in 1..Len(model_data) :
            /\ plan_in.min_scale <= model_data[i].scale_factor
            /\ model_data[i].scale_factor <= plan_in.max_scale

\* C10: when all magnitudes are equal (a single record included) the loop
\* performs no division and every scale_factor equals min_scale.
C10_EqualMagnitudesGetMinScale ==
    SeqMax(plan_in.values) = SeqMin(plan_in.values) =>
        /\ divisions = 0
        /\ \A i \in 1..Len(model_data) :
              model_data[i].scale_factor = plan_in.min_scale

C10_Witness ==
    /\ Len(plan_in.values) = 3
    /\ plan_i = 3
    /\ Len(model_data) = 3
    /\ SeqMax(plan_in.values) = SeqMin(plan_in.values)
    /\ plan_in.max_scale > plan_in.min_scale
    /\ plan_in.power2 = 3

\* C11: in linear mode with max magnitude > min magnitude, the record of
\* minimum magnitude gets exactly min_scale and the record of maximum
\* magnitude gets exactly max_scale.
C11_LinearEndpointsExact ==
    (plan_in.linear /\ SeqMax(plan_in.values) > SeqMin(plan_in.values)) =>
        \A i \in 1..Len(model_data) :
            /\ model_data[i].DataValue = SeqMin(plan_in.values) =>
                   model_data[i].scale_factor = plan_in.min_scale
            /\ model_data[i].DataValue = SeqMax(plan_in.values) =>
                   model_data[i].scale_factor = plan_in.max_scale

\* ------------------------------------------------------------------------
\* Properties of the placed items (checked under Spec)
\* ------------------------------------------------------------------------
\* the objects placed for items i and i + 1, whichever ticks placed them
AdjacentPlaced ==
    {<<a, b>> \in DuplicateObjects \X DuplicateObjects : b.idx = a.idx + 1}

\* C12: for any two adjacent placed items i and i+1 (also when a batch
\* boundary lies between them) the distance from the right edge of item i
\* (centre + width/2) to the left edge of item i+1 (centre - width/2) is at
\* least min_clearance.  Distances are compared after doubling.
C12_AdjacentGapAtLeastClearance ==
    \A p \in AdjacentPlaced :
        (2 * p[2].x - p[2].width) - (2 * p[1].x + p[1].width)
            >= 2 * MIN_CLEARANCE_BETWEEN_MODELS

\* C13: with positive widths and gaps the centre X of item i is strictly
\* less than the centre X of item i+1, in every state of a run.
C13_CentresStrictlyIncrease ==
    \A p \in AdjacentPlaced :
        (p[1].width > 0 /\ p[2].width > 0 /\ MIN_CLEARANCE_BETWEEN_MODELS > 0)
            => p[1].x < p[2].x

\* the width measured for item i (0-based): from the planned list while the
\* context holds it, else from the object placed for it
PlacedWidth(i) ==
    IF DOMAIN batch_context # {}
    THEN batch_context.model_data_to_process[i + 1].width
    ELSE (CHOOSE o \in DuplicateObjects : o.idx = i).width

\* the running offset in front of item i of a run of n items: 0 for the
\* first item, then advanced after every item j by
\* width_j + max(min_clearance, (width_j/2 + width_(j+1)/2) * gap_factor),
\* the proportional term being 0 for the last item
RECURSIVE RunningOffset(_, _)
RunningOffset(i, n) ==
    IF i = 0 THEN 0
    ELSE LET j == i - 1
             proportional ==
                 IF j = n - 1 THEN 0
                 ELSE fmul(fadd(fdiv(PlacedWidth(j), 2 * Unit),
                                fdiv(PlacedWidth(j + 1), 2 * Unit)),
                           PROPORTIONAL_GAP_FACTOR)
         IN  fadd(RunningOffset(j, n),
                  fadd(PlacedWidth(j),
                       Max(MIN_CLEARANCE_BETWEEN_MODELS, proportional)))

\* C14: item i is placed at centre X = running_offset + width_i/2 (the
\* object's location holds it in single precision), where running_offset
\* starts at 0 and advances after item i by
\* width_i + max(min_clearance, (width_i/2 + width_(i+1)/2) * gap_factor);
\* between two ticks the context carries this running offset.
C14_CentreIsOffsetPlusHalfWidth ==
    /\ \A o \in DuplicateObjects :
          o.x = to_f32(fadd(RunningOffset(o.idx, run_args.n_items),
                            fdiv(o.width, 2 * Unit)))
    /\ (Running /\ batch_context.current_model_index > 0) =>
          batch_context.current_x_position_for_next_model =
              RunningOffset(batch_context.current_model_index, run_args.n_items)

C14_Witness ==
    /\ run_result = "completed"
    /\ ticks = 2
    /\ Cardinality(DuplicateObjects) = 12
    /\ PlacedWidth(0) = NarrowWidth
    /\ PlacedWidth(11) = WideWidth

\* ------------------------------------------------------------------------
\* Properties of the hierarchy duplicator and the collection linker
\* (checked under SpecScene)
\* ------------------------------------------------------------------------
DuplicateCalls == {k \in 1..Len(calls) : calls[k].fn = "duplicate"}
LinkCalls == {k \in 1..Len(calls) : calls[k].fn = "link"}

\* the objects whose name starts with the prefix of a call
CreatedBy(c) ==
    {n \in 1..Len(objects) :
        Len(objects[n].name) > 2 /\ objects[n].name[1] = c.arg}

\* the step is a call of duplicate_object_with_hierarchy
IsDuplicateStep ==
    /\ Len(calls') = Len(calls) + 1
    /\ calls'[Len(calls')].fn = "duplicate"

C15_OneDuplicatePerNode ==
    \A k \in DuplicateCalls :
        LET c == calls[k]
            tree == hierarchy_of(objects, c.obj)
        IN  /\ DOMAIN c.map = tree
            /\ {c.map[n] : n \in tree} = CreatedBy(c)
            /\ Cardinality(CreatedBy(c)) = Cardinality(tree)
            /\ CreatedBy(c) \cap tree = {}
            /\ c.ret = c.map[c.obj]
            /\ \A n \in tree :
                  /\ Len(children_of(objects, c.map[n])) =
                         Len(children_of(objects, n))
                  /\ objects[c.map[n]].name =
                         <<c.arg, "_">> \o objects[n].name

C15_SourceUnchanged ==
    IsDuplicateStep =>
        /\ \A n \in 1..Len(objects) :
              /\ objects'[n] = objects[n]
              /\ users_collection'[n] = users_collection[n]
              /\ children_of(objects', n) = children_of(objects, n)
        /\ \A d \in 1..Len(data_blocks) : data_blocks'[d] = data_blocks[d]

\* C15: duplicate_object_with_hierarchy(root, prefix) creates exactly one
\* duplicate per node of the source tree, every node's duplicate has as
\* many children as the node, every duplicate's name is the prefix followed
\* by the original name, and the call leaves the source tree (and every
\* other object that existed) unchanged.
C15_DuplicateIsIsomorphicCopy ==
    [](C15_OneDuplicatePerNode) /\ [][C15_SourceUnchanged]_vars

C15_Witness ==
    /\ Len(calls) = 2
    /\ calls[1].fn = "duplicate" /\ calls[1].variant = "iterative"
    /\ calls[2].fn = "duplicate" /\ calls[2].variant = "recursive"
    /\ calls[1].obj = calls[2].obj
    /\ Cardinality(DOMAIN calls[1].map) = 3
    /\ Len(children_of(objects, calls[1].obj)) = 2

\* the geometry an object shows: the content of its data block
GeometryOf(objs, blocks, n) ==
    IF objs[n].data = None THEN None ELSE blocks[objs[n].data].geometry

C16_DataBlocksDistinct ==
    \A d \in DuplicateIds :
        objects[d].data # None =>
            /\ objects[d].data \in 1..Len(data_blocks)
            /\ \A n \in (1..Len(objects)) \ {d} :
                  objects[n].data # objects[d].data

\* an edit of the data of a duplicate is seen through no other object
C16_EditStaysLocal ==
    (/\ Len(calls') = Len(calls) + 1
     /\ calls'[Len(calls')].fn = "user_edit"
     /\ calls'[Len(calls')].obj \in DuplicateIds)
    => \A n \in (1..Len(objects)) \ {calls'[Len(calls')].obj} :
          GeometryOf(objects', data_blocks', n) =
              GeometryOf(objects, data_blocks, n)

\* C16: after any number of duplicate_object_with_hierarchy calls the data
\* block of every duplicate that has data is shared with no other object,
\* source or duplicate, so that a mutation of one duplicate's data changes
\* no other object's data.
C16_DuplicatesOwnTheirData ==
    [](C16_DataBlocksDistinct) /\ [][C16_EditStaysLocal]_vars

C16_Witness ==
    /\ Len(calls) = 2
    /\ calls[1].fn = "duplicate"
    /\ calls[2].fn = "user_edit"
    /\ calls[2].obj \in DuplicateIds
    /\ Cardinality(DOMAIN calls[1].map) = 3
    \* the source nodes share one mesh
    /\ \A n \in SourceIds : objects[n].data = 1
    /\ GeometryOf(objects, data_blocks, calls[2].obj) = 1
    /\ GeometryOf(objects, data_blocks, calls[1].obj) = 0

\* the places of the copies and parent links in the event list of a call
CopyEvents(c) == {i \in 1..Len(c.events) : c.events[i][1] = "copy"}
LinkEvents(c) == {i \in 1..Len(c.events) : c.events[i][1] = "link"}
EventOf(c, kind, n) == CHOOSE i \in 1..Len(c.events) : c.events[i] = <<kind, n>>

\* for every non-root node n of the source tree the parent of dup(n) is
\* dup(parent(n)) and the inverse parent matrices agree; every such node
\* got its parent link and matrix in one step, the root got none
C17_ParentsRemapped(c) ==
    LET tree == hierarchy_of(objects, c.obj)
    IN  /\ \A n \in tree \ {c.obj} :
              /\ objects[c.map[n]].parent = c.map[objects[n].parent]
              /\ objects[c.map[n]].matrix_parent_inverse =
                     objects[n].matrix_parent_inverse
        /\ {c.events[i][2] : i \in LinkEvents(c)} = tree \ {c.obj}
        /\ Cardinality(LinkEvents(c)) = Cardinality(tree) - 1
        /\ objects[c.ret].parent = None

\* no parent link is made before the last node has been copied
C17_AllCopiesBeforeLinks(c) ==
    \A i \in LinkEvents(c), j \in CopyEvents(c) : j < i

\* a child is linked right after its own subtree has been copied
C17_LinkFollowsSubtree(c) ==
    \A i \in LinkEvents(c) :
        LET n == c.events[i][2]
            sub == hierarchy_of(objects, n)
        IN  /\ \A m \in sub : EventOf(c, "copy", m) < i
            /\ \A m \in sub \ {n} : EventOf(c, "link", m) < i
            /\ EventOf(c, "copy", objects[n].parent) < EventOf(c, "copy", n)
            /\ i = EventOf(c, "copy", n) + 2 * Cardinality(sub) - 1

LastIsLink == Len(calls) > 0 /\ calls[Len(calls)].fn = "link"

\* C18: after link_object_and_hierarchy_to_collection(obj, target), obj and
\* every descendant of obj is a member of target, and none of them is a
\* member of a collection other than the scene root collection and target.
C18_HierarchyLinkedToTarget ==
    LastIsLink =>
        LET c == calls[Len(calls)]
        IN  \A n \in hierarchy_of(objects, c.obj) :
                /\ c.arg \in users_collection[n]
                /\ users_collection[n] \subseteq {SCENE_COLLECTION, c.arg}

C18_Witness ==
    /\ Len(calls) = 2
    /\ calls[1].fn = "user_link" /\ calls[1].arg = USER_COLLECTION
    /\ calls[2].fn = "link" /\ calls[2].arg = BACKGROUND_GRID
    /\ calls[1].obj # calls[2].obj
    /\ calls[1].obj \in hierarchy_of(objects, calls[2].obj)
    /\ Cardinality(hierarchy_of(objects, calls[2].obj)) = 3
    /\ USER_COLLECTION \in calls[2].before[calls[1].obj]

\* the step is a call of the linker
IsLinkStep ==
    /\ Len(calls') = Len(calls) + 1
    /\ calls'[Len(calls')].fn = "link"

\* the step repeats the linker call that was made last
RepeatsLastLink ==
    /\ LastIsLink
    /\ IsLinkStep
    /\ calls'[Len(calls')].variant = calls[Len(calls)].variant
    /\ calls'[Len(calls')].obj = calls[Len(calls)].obj
    /\ calls'[Len(calls')].arg = calls[Len(calls)].arg

\* every node of the hierarchy the step links is in the target only
AlreadyExclusive ==
    /\ IsLinkStep
    /\ \A n \in hierarchy_of(objects, calls'[Len(calls')].obj) :
          users_collection[n] = {calls'[Len(calls')].arg}

C19_SecondCallChangesNothing ==
    (RepeatsLastLink \/ AlreadyExclusive) =>
        /\ calls'[Len(calls')].ret = "ok"
        /\ users_collection' = users_collection

\* C19: link_object_and_hierarchy_to_collection is idempotent: a second
\* call with the same object and target succeeds, also when every node is
\* already in the target only, and leaves every object's collections as
\* they were after the first call.
C19_LinkIsIdempotent ==
    [](\A k \in LinkCalls : calls[k].ret = "ok")
        /\ [][C19_SecondCallChangesNothing]_vars

C19_Witness ==
    /\ Len(calls) = 2
    /\ calls[1].fn = "link" /\ calls[2].fn = "link"
    /\ calls[1].variant = "keep_scene" /\ calls[2].variant = "keep_scene"
    /\ calls[1].obj = calls[2].obj
    /\ calls[1].arg = BACKGROUND_GRID /\ calls[2].arg = BACKGROUND_GRID
    /\ Cardinality(hierarchy_of(objects, calls[2].obj)) = 3
    /\ calls[1].before # calls[2].before
    /\ users_collection = calls[2].before

\* ------------------------------------------------------------------------
\* Properties of the grid operator (checked under SpecGrid)
\* ------------------------------------------------------------------------
\* C20: at every tick boundary of a grid-generation run, every object the
\* run has created so far (each cell parent empty and every node of each
\* duplicated hierarchy) is a member of exactly one collection, the
\* Background_Grid collection
C20_CreatedObjectsOnlyInGrid ==
    \A n \in op.created : users_collection[n] = {BACKGROUND_GRID}

\* ------------------------------------------------------------------------
\* Properties of the CSV parsers (checked under SpecCsv)
\* ------------------------------------------------------------------------
\* the rows of the file that have a record in the result
RowsWithRecord == {csv_result.data[k].ID + 1 : k \in 1..Len(csv_result.data)}

\* a row every cell of which the called parser can convert
RowParses(row) ==
    /\ py_float(row.data).raised = "none"
    /\ csv_result.fn = "parse_csv_data" => py_int(row.population).raised = "none"

\* C21: a row whose magnitude cell is not numeric is skipped without
\* aborting the parse: the result has no record for that row and has a
\* record for every other row that parses
C21_BadRowSkippedOthersKept ==
    csv_result.fn # "none" =>
        \A i \in 1..Len(csv_file) :
            /\ csv_file[i].data.kind # "number" => i \notin RowsWithRecord
            /\ RowParses(csv_file[i]) => i \in RowsWithRecord

\* ------------------------------------------------------------------------
\* Error handling of generate_stats_models (checked under Spec)
\* ------------------------------------------------------------------------
\* a call of generate_stats_models that returns because the model could not
\* be imported or the CSV file gave no record
ConfigErrorStep ==
    /\ ~timer_registered
    /\ run_result' \in {"import_failed", "no_data"}
    /\ run_args' = [run_args EXCEPT !.n_items = 0]
    /\ ticks' = 0

\* C22: a configuration error (missing model or CSV file, unsupported format
\* tag, missing column) aborts the operation before any scene mutation: when
\* the operation returns, it has created, deleted, relinked or hidden no
\* collection and no object
C22_ConfigErrorMutatesNothing ==
    [][ConfigErrorStep => UNCHANGED <<collections, coll_objects>>]_vars

\* ------------------------------------------------------------------------
\* Properties of execute (checked under SpecGrid)
\* ------------------------------------------------------------------------
\* execute called import_and_prepare_model with a tag outside the three
\* supported ones
UnsupportedTagImport ==
    /\ op.file_type # ""
    /\ py_upper(op.file_type) \notin {"GLTF", "OBJ", "FBX"}

\* C23: a format tag other than GLTF, OBJ or FBX (case-insensitive) is a hard
\* error: import_and_prepare_model invokes no import operation and returns
\* None, and the operator returns CANCELLED without starting the modal timer,
\* so no grid cell is ever created
C23_UnsupportedTagCancels ==
    UnsupportedTagImport =>
        /\ op.import_ops = <<>>
        /\ op.status = "CANCELLED"
        /\ ~op.timer
        /\ op.ticks = 0
        /\ op.cells = <<>>
        /\ op.created = {}
        /\ objects = <<>>

C23_Witness ==
    /\ op.file_type = "stl"
    /\ op.status = "CANCELLED"
    /\ op.variant = "buildings"

\* ------------------------------------------------------------------------
\* Batching and layout (checked under SpecBatch)
\* ------------------------------------------------------------------------
\* the planned list before any item is placed
UnplacedItems ==
    [i \in 1..Len(batch_run.model_data_to_process) |->
        [batch_run.model_data_to_process[i] EXCEPT !.world_x_pos = 0]]

\* the first k items placed by one tick
PlacedInOneTick(k) ==
    PlaceRange([items |-> UnplacedItems, x_next |-> 0, objs |-> {},
                placed |-> <<>>],
               0, k, PROPORTIONAL_GAP_FACTOR, MIN_CLEARANCE_BETWEEN_MODELS)

\* C24: batching is transparent to the layout: for a fixed planned item
\* list, the centre X recorded for every item and the running offset are the
\* same for every batch size B >= 1, equal to the result of placing the
\* items in a single tick
C24_BatchingIsTransparent ==
    LET one_tick == PlacedInOneTick(batch_run.current_model_index)
    IN  /\ batch_run.model_data_to_process = one_tick.items
        /\ batch_run.current_x_position_for_next_model = one_tick.x_next
        /\ batch_run.objs = one_tick.objs

C24_Witness ==
    /\ batch_run.batch_size = 2
    /\ batch_run.ticks >= 3
    /\ batch_run.current_model_index = Len(batch_run.model_data_to_process)
    /\ batch_run.current_model_index >= 5

\* ------------------------------------------------------------------------
\* Properties of the modal grid run (checked under SpecGrid)
\* ------------------------------------------------------------------------
\* the cell parent empties the run has created, in the order of creation
CreatedCellParents ==
    SortedSeq({n \in op.created : objects[n].parent = op.grid_parent})

\* the duplicated roots parented to a cell parent
CellContent(cell_parent) ==
    {n \in op.created : objects[n].parent = cell_parent}

\* a run that went through modal to the end
CompletedRun == op.status = "FINISHED" /\ op.ticks > 0

\* C25: for grid dimensions X >= 1 and Y >= 1, a modal run that is not
\* cancelled creates exactly X*Y cell parents, one for each pair (i, j) with
\* 0 <= i < X and 0 <= j < Y and none twice, in the order j fastest then i,
\* and each cell receives exactly one duplicated hierarchy per top-level
\* source root
C25_OneCellPerPairInOrder ==
    LET cell_parents == CreatedCellParents
        n_roots == Len(op.top_level_model_roots)
    IN  /\ \A k \in 1..Len(cell_parents) :
              /\ objects[cell_parents[k]].name =
                     <<"Grid", (k - 1) \div op.grid_y, (k - 1) % op.grid_y,
                       "Cell_Parent">>
              /\ (k - 1) \div op.grid_y < op.grid_x
              /\ Cardinality(CellContent(cell_parents[k])) = n_roots
              /\ {objects[n].name[1] : n \in CellContent(cell_parents[k])} =
                     {<<"Grid", (k - 1) \div op.grid_y, (k - 1) % op.grid_y,
                        "Model", r - 1>> : r \in 1..n_roots}
        /\ CompletedRun => Len(cell_parents) = op.grid_x * op.grid_y

C25_Witness ==
    /\ CompletedRun
    /\ op.variant = "import_script"
    /\ op.grid_x = 3
    /\ op.grid_y = 2
    /\ Len(op.top_level_model_roots) = 2
    /\ Len(CreatedCellParents) = 6

\* the number of cells of the run
TotalCells == op.grid_x * op.grid_y

\* the operator of Blender_Buildings_Generator.py or
\* Blender_Background_Generator.py
TestsBeforeCell == op.variant \in {"buildings", "background"}

C26_TickCount ==
    TestsBeforeCell =>
        /\ CompletedRun => op.ticks = (TotalCells \div GRID_BATCH_SIZE) + 1
        /\ op.status = "RUNNING_MODAL" =>
              Len(CreatedCellParents) = Min(op.ticks * GRID_BATCH_SIZE, TotalCells)

C26_ExtraTickStep ==
    (/\ TestsBeforeCell
     /\ op.status = "RUNNING_MODAL"
     /\ op'.status = "FINISHED"
     /\ TotalCells % GRID_BATCH_SIZE = 0)
        => /\ op.ticks = TotalCells \div GRID_BATCH_SIZE
           /\ objects' = objects

\* C26: with N = X*Y cells and batch size B, modal in
\* Blender_Buildings_Generator.py and Blender_Background_Generator.py returns
\* FINISHED on timer tick floor(N/B) + 1: when B divides N the run needs one
\* extra tick that creates no cell, because completion is only detected at
\* the start of a loop iteration, before a cell is created
C26_FinishedOnTickFloorPlusOne ==
    [](C26_TickCount) /\ [][C26_ExtraTickStep]_vars

C26_Witness ==
    /\ CompletedRun
    /\ op.variant = "buildings"
    /\ TotalCells = 10
    /\ op.ticks = 3
    /\ Len(CreatedCellParents) = 10

\* execute returned RUNNING_MODAL in this run
EnteredModal == op.grid_x > 0

\* modal has returned FINISHED or CANCELLED
ModalReturned == EnteredModal /\ op.status \in {"FINISHED", "CANCELLED"}

C27_FinishAndTimer ==
    EnteredModal =>
        /\ op.status \in {"RUNNING_MODAL", "FINISHED", "CANCELLED"}
        /\ op.status = "RUNNING_MODAL" => (op.finish_calls = 0 /\ op.timer)
        /\ ModalReturned => (op.finish_calls = 1 /\ ~op.timer)

C27_NoCellAfterReturn ==
    ModalReturned => UNCHANGED <<objects, users_collection, op>>

\* C27: in every run of the modal grid operator that enters RUNNING_MODAL,
\* finish_operation executes exactly once (on the tick that detects
\* completion, or on ESC), the event timer exists exactly while the operator
\* is running, and no cell is created after modal has returned FINISHED or
\* CANCELLED
C27_FinishOnceTimerWhileRunning ==
    [](C27_FinishAndTimer) /\ [][C27_NoCellAfterReturn]_vars

C27_Witness ==
    /\ op.status = "CANCELLED"
    /\ EnteredModal
    /\ op.ticks = 1
    /\ Len(op.cells) = GRID_BATCH_SIZE
    /\ op.finish_calls = 1
    /\ ~op.timer

\* the duplicates collection exists and has objects
ExistingDuplicates ==
    DUPLICATES \in collections /\ coll_objects[DUPLICATES] # {}

\* what the completion callback received
CallbackItems(call) ==
    {[idx |-> call.items[k].Category, x |-> call.items[k].world_x_pos] :
        k \in 1..Len(call.items)}

\* a call of generate_stats_models with rebuild_on_run False while the
\* duplicates collection has objects
C28_StatsSkipStep ==
    (/\ ~timer_registered
     /\ ExistingDuplicates
     /\ statsVars' # statsVars
     /\ ~run_args'.rebuild_on_run)
        => /\ run_result' = "skipped"
           /\ ~timer_registered'
           /\ ticks' = 0
           /\ UNCHANGED <<collections, coll_objects>>
           /\ Len(callback_calls') = IF run_args'.has_callback THEN 1 ELSE 0
           /\ \A c \in 1..Len(callback_calls') :
                 LET call == callback_calls'[c]
                 IN  /\ call.collection = DUPLICATES
                     /\ call.tick = 0
                     /\ Len(call.items) = Cardinality(coll_objects[DUPLICATES])
                     /\ CallbackItems(call) =
                           {[idx |-> o.idx, x |-> o.x] :
                               o \in coll_objects[DUPLICATES]}
                     /\ \A k \in 1..(Len(call.items) - 1) :
                           call.items[k].world_x_pos
                               <= call.items[k + 1].world_x_pos

\* a call of execute with REBUILD_BACKGROUND_GRID_ON_RUN False while the grid
\* collection has objects besides the master empty
ExistingGridContent ==
    /\ existing_grid_parent(SceneOf({})) # None
    /\ \E n \in 1..Len(objects) :
          /\ objects[n].name # GRID_MASTER_NAME
          /\ BACKGROUND_GRID \in users_collection[n]

C28_GridSkipStep ==
    (/\ op.status = "idle"
     /\ ExistingGridContent
     /\ op' # op
     /\ ~op'.should_rebuild)
        => /\ op'.status = "FINISHED"
           /\ ~op'.timer
           /\ op'.ticks = 0
           /\ op'.cells = <<>>
           /\ UNCHANGED <<objects, data_blocks, users_collection>>

\* C28: when generated output already exists and rebuild is off, generation
\* is skipped: generate_stats_models (non-empty duplicates collection,
\* rebuild_on_run False) registers no timer, places and deletes no object,
\* and invokes the completion callback once, synchronously, with the existing
\* items ordered by world_x_pos; the grid operator (Background_Grid with
\* content, REBUILD_BACKGROUND_GRID_ON_RUN False) creates and deletes no grid
\* object, starts no timer and returns FINISHED
C28_ExistingOutputIsKept ==
    [][C28_StatsSkipStep /\ C28_GridSkipStep]_vars

\* a skipped stats run that handed two or more existing items to the callback
C28_Witness ==
    /\ run_result = "skipped"
    /\ run_args.has_callback
    /\ Len(callback_calls) = 1
    /\ Len(callback_calls[1].items) >= 2
    /\ ~timer_registered

\* a grid run that kept the existing grid
C28_GridWitness ==
    /\ op.status = "FINISHED"
    /\ op.ticks = 0
    /\ op.finish_calls = 1
    /\ ExistingGridContent

\* the step has called a generator since the operator was last executed
StepRan == pipeline_log # <<>>

\* every item of the run is in the duplicates collection
EveryItemPlaced ==
    /\ Len(PlacedLog) = run_args.n_items
    /\ \A i \in 0..(run_args.n_items - 1) :
          \E o \in DuplicateObjects : o.idx = i

C29_StepAfterCallback ==
    \* the step is registered by the callback only
    /\ step_timers <= Len(callback_calls)
    /\ step_timers > 0 => stats_generator_results.set
    \* at most one step per run, the graph first
    /\ Len(pipeline_log) \in {0, 2}
    /\ StepRan =>
          /\ pipeline_log[1].generator = "graph"
          /\ pipeline_log[2].generator = "camera"
          /\ step_timers = 0
          /\ Len(callback_calls) = 1
          /\ run_result \in {"completed", "skipped"}
          /\ ~timer_registered
    \* a scheduled run has placed every item before the step is registered
    /\ (run_result = "completed" /\ (StepRan \/ step_timers > 0)) =>
          /\ EveryItemPlaced
          /\ Len(stats_generator_results.all_model_data) = run_args.n_items
    \* no callback, no step
    /\ run_result \in {"halted", "import_failed", "no_data", "scheduled"} =>
          (callback_calls = <<>> /\ step_timers = 0 /\ ~StepRan)

\* the step is taken only while no tick of the stats scheduler is pending
C29_StepWhenStatsDone ==
    (pipeline_log' # pipeline_log /\ pipeline_log' # <<>>) =>
        (~timer_registered /\ run_result \in {"completed", "skipped"})

\* C29: the graph-and-camera step never runs before the stats scheduler has
\* placed every item: _run_graph_and_camera_animation_step is only scheduled
\* by stats_generator_completion_callback, it runs at most once per completed
\* stats run, graph generation precedes camera generation, and if the stats
\* run halts or returns early without calling the callback the step never
\* runs
C29_StepOnlyAfterStatsCompletion ==
    [](C29_StepAfterCallback) /\ [][C29_StepWhenStatsDone]_vars

\* a scheduled run of several ticks, then the step
C29_Witness ==
    /\ run_result = "completed"
    /\ ticks >= 2
    /\ Len(pipeline_log) = 2
    /\ Len(stats_generator_results.all_model_data) = run_args.n_items
    /\ run_args.n_items > BATCH_SIZE

\* a halted run: the step never ran
C29_HaltedWitness ==
    /\ run_result = "halted"
    /\ pipeline_status = "FINISHED"
    /\ ticks >= 1
    /\ ~StepRan

\* C30: the iterative duplicate_object_with_hierarchy of
\* Blender_Buildings_Generator.py completes without a failed map lookup for
\* any root, including a root that itself has a parent outside the
\* duplicated subtree: in the re-linking pass the parent of every visited
\* node that has a parent is present in original_to_duplicate_map
C30_NoFailedMapLookup ==
    \A k \in DuplicateCalls :
        /\ calls[k].error = "none"
        /\ \A n \in DOMAIN calls[k].map :
              objects[n].parent # None =>
                  objects[n].parent \in DOMAIN calls[k].map

\* the calls execute makes: on objects without parent, where every lookup of
\* the second pass succeeds
C30_TopLevelRootsSucceed ==
    \A k \in DuplicateCalls :
        objects[calls[k].obj].parent = None => calls[k].error = "none"

C30_TopLevelWitness ==
    \E k \in DuplicateCalls :
        /\ objects[calls[k].obj].parent = None
        /\ calls[k].error = "none"
        /\ Cardinality(DOMAIN calls[k].map) >= 2

====
